---- MODULE Spec2Model ----
(***************************************************************************)
(* A model of compiler.py: the line-oriented translator compile_language,  *)
(* with the helpers compile_builtin_expression and                         *)
(* compile_random_expression.  Text is modelled as a sequence of           *)
(* one-character strings, so that the prefix, suffix, containment and      *)
(* splitting tests of the source are computed character by character.      *)
(***************************************************************************)
EXTENDS Integers, Sequences, FiniteSets, TLC

\* ------------------------------------------------------------------------
\* Python string primitives used by the source
\* ------------------------------------------------------------------------

\* str.strip()/rstrip()/split() whitespace, restricted to the characters of the inputs
IsSpace(c) == c \in {" ", "\t"}

\* str.rstrip()
RStrip(s) ==
  IF \A i \in 1..Len(s) : IsSpace(s[i]) THEN <<>>
  ELSE LET k == CHOOSE i \in 1..Len(s) :
                  ~IsSpace(s[i]) /\ \A j \in (i+1)..Len(s) : IsSpace(s[j])
       IN SubSeq(s, 1, k)

\* str.lstrip()
LStrip(s) ==
  IF \A i \in 1..Len(s) : IsSpace(s[i]) THEN <<>>
  ELSE LET k == CHOOSE i \in 1..Len(s) :
                  ~IsSpace(s[i]) /\ \A j \in 1..(i-1) : IsSpace(s[j])
       IN SubSeq(s, k, Len(s))

\* str.strip()
Strip(s) == LStrip(RStrip(s))

\* str.startswith(p)
StartsWith(s, p) == Len(s) >= Len(p) /\ SubSeq(s, 1, Len(p)) = p

\* str.endswith(p)
EndsWith(s, p) == Len(s) >= Len(p) /\ SubSeq(s, Len(s) - Len(p) + 1, Len(s)) = p

\* c in s, for a one-character c
HasChar(s, c) == \E i \in 1..Len(s) : s[i] = c

\* s[n:]
DropFirst(s, n) == SubSeq(s, n + 1, Len(s))

\* s[:-n]
DropLast(s, n) == SubSeq(s, 1, Len(s) - n)

\* s.split(c, 1): one part when c does not occur, else the text before and after its first occurrence
SplitOnce(s, c) ==
  IF ~HasChar(s, c) THEN <<s>>
  ELSE LET k == CHOOSE i \in 1..Len(s) : s[i] = c /\ \A j \in 1..(i-1) : s[j] # c
       IN <<SubSeq(s, 1, k - 1), SubSeq(s, k + 1, Len(s))>>

\* s.split(c): every part between occurrences of c, empty parts kept
RECURSIVE SplitChar(_, _)
SplitChar(s, c) ==
  IF ~HasChar(s, c) THEN <<s>>
  ELSE <<SplitOnce(s, c)[1]>> \o SplitChar(SplitOnce(s, c)[2], c)

\* s.split(): the maximal runs of non-whitespace characters
RECURSIVE Split(_)
\* the words of t, which does not start with whitespace
SplitWords(t) ==
  IF t = <<>> THEN <<>>
  ELSE IF \A i \in 1..Len(t) : ~IsSpace(t[i]) THEN <<t>>
  ELSE LET k == CHOOSE i \in 1..Len(t) : IsSpace(t[i]) /\ \A j \in 1..(i-1) : ~IsSpace(t[j])
       IN <<SubSeq(t, 1, k - 1)>> \o Split(SubSeq(t, k, Len(t)))

Split(s) == SplitWords(LStrip(s))

\* sep.join(parts)
RECURSIVE Join(_, _)
Join(parts, sep) ==
  IF parts = <<>> THEN <<>>
  ELSE IF Len(parts) = 1 THEN parts[1]
  ELSE parts[1] \o sep \o Join(Tail(parts), sep)

\* str.lower() on one character
LowerChar(c) ==
  LET up == <<"A","B","C","D","E","F","G","H","I","J","K","L","M",
              "N","O","P","Q","R","S","T","U","V","W","X","Y","Z">>
      lo == <<"a","b","c","d","e","f","g","h","i","j","k","l","m",
              "n","o","p","q","r","s","t","u","v","w","x","y","z">>
  IN IF \E i \in 1..26 : up[i] = c
     THEN lo[CHOOSE i \in 1..26 : up[i] = c]
     ELSE c

\* str.lower()
Lower(s) == [i \in 1..Len(s) |-> LowerChar(s[i])]

\* str.isidentifier(), for ASCII text
IsIdentifier(s) ==
  LET letters == {"a","b","c","d","e","f","g","h","i","j","k","l","m",
                  "n","o","p","q","r","s","t","u","v","w","x","y","z","_"}
      digits  == {"0","1","2","3","4","5","6","7","8","9"}
  IN /\ s # <<>>
     /\ LowerChar(s[1]) \in letters
     /\ \A i \in 1..Len(s) : LowerChar(s[i]) \in letters \cup digits

\* two spaces per level instead of four
SpacesTwoWide(n) == [i \in 1..(2 * n) |-> " "]

\* "    " * n
Spaces(n) == [i \in 1..(4 * n) |-> " "]

\* tokens[k:]
TokensFrom(tokens, k) == SubSeq(tokens, k + 1, Len(tokens))

\* ------------------------------------------------------------------------
\* Registries (module level and the locals of compile_language)
\* ------------------------------------------------------------------------

builtin_funcs ==
  {<<"l","e","n","g","t","h">> (* length *), <<"t","y","p","e">> (* type *), <<"i","n","t","e","g","e","r">> (* integer *), <<"f","l","o","a","t">> (* float *), <<"s","t","r","i","n","g">> (* string *), <<"l","i","s","t">> (* list *), <<"t","u","p","l","e">> (* tuple *), <<"d","i","c","t","i","o","n","a","r","y">> (* dictionary *), <<"s","e","t">>,
   <<"a","b","s">>, <<"m","a","x","o","f">> (* maxof *), <<"m","i","n","o","f">> (* minof *), <<"r","o","u","n","d">> (* round *), <<"s","u","m","o","f">> (* sumof *), <<"r","a","n","g","e">> (* range *), <<"e","n","u","m","e","r","a","t","e","a","r","r","a","y">> (* enumeratearray *), <<"h","e","l","p","f","u","n","c","t","i","o","n">> (* helpfunction *),
   <<"d","i","r","e","c","t","o","r","y","o","f">> (* directoryof *), <<"u","p","p","e","r","c","a","s","e">> (* uppercase *), <<"l","o","w","e","r","c","a","s","e">> (* lowercase *), <<"c","o","n","c","a","t">> (* concat *), <<"e","x","p","o","n","e","n","t">> (* exponent *)}

\* the keys of math_funcs_mapping; every key maps to itself
math_funcs_mapping ==
  {<<"s","q","r","t">> (* sqrt *), <<"c","e","i","l">> (* ceil *), <<"f","l","o","o","r">> (* floor *), <<"m","o","d">>, <<"l","o","g">>, <<"s","i","n">>, <<"c","o","s">>, <<"t","a","n">>}

allowed_types ==
  {<<"n","u","m","b","e","r">> (* number *), <<"i","n","t","e","g","e","r">> (* integer *), <<"f","l","o","a","t">> (* float *), <<"t","e","x","t">> (* text *), <<"b","o","o","l","e","a","n">> (* boolean *), <<"a","r","r","a","y">> (* array *), <<"d","i","c","t","i","o","n","a","r","y">> (* dictionary *)}

list_array_funcs ==
  {<<"a","p","p","e","n","d">> (* append *), <<"r","e","m","o","v","e">> (* remove *), <<"p","o","p">>, <<"i","n","d","e","x","o","f">> (* indexof *), <<"c","o","u","n","t","o","f">> (* countof *), <<"s","o","r","t","l","i","s","t">> (* sortlist *), <<"u","n","i","q","u","e","l","i","s","t">> (* uniquelist *), <<"r","e","v","e","r","s","e">> (* reverse *)}

dict_funcs ==
  {<<"k","e","y","s","f","r","o","m","d","i","c","t","i","o","n","a","r","y">> (* keysfromdictionary *), <<"v","a","l","u","e","s","f","r","o","m","d","i","c","t","i","o","n","a","r","y">> (* valuesfromdictionary *), <<"g","e","t","v","a","l","u","e","f","r","o","m","d","i","c","t","i","o","n","a","r","y">> (* getvaluefromdictionary *),
   <<"s","e","t","v","a","l","u","e","i","n","d","i","c","t","i","o","n","a","r","y">> (* setvalueindictionary *), <<"r","e","m","o","v","e","k","e","y","f","r","o","m","d","i","c","t","i","o","n","a","r","y">> (* removekeyfromdictionary *)}

bool_funcs == {<<"l","o","g","i","c","a","l","n","o","t">> (* logicalnot *), <<"l","o","g","i","c","a","l","a","n","d">> (* logicaland *), <<"l","o","g","i","c","a","l","o","r">> (* logicalor *), <<"l","o","g","i","c","a","l","x","o","r">> (* logicalxor *)}

math_funcs == {<<"s","q","r","t">> (* sqrt *), <<"c","e","i","l">> (* ceil *), <<"f","l","o","o","r">> (* floor *), <<"m","o","d">>, <<"l","o","g">>, <<"s","i","n">>, <<"c","o","s">>, <<"t","a","n">>}

file_funcs == {<<"r","e","a","d","f","i","l","e">> (* readfile *), <<"w","r","i","t","e","f","i","l","e">> (* writefile *), <<"a","p","p","e","n","d","f","i","l","e">> (* appendfile *)}

screen_funcs == {<<"c","l","e","a","r","s","c","r","e","e","n">> (* clearscreen *), <<"e","x","i","t","p","r","o","g","r","a","m">> (* exitprogram *)}

type_funcs ==
  {<<"l","e","n","g","t","h","o","f">> (* lengthof *), <<"t","y","p","e","o","f">> (* typeof *), <<"i","n","t","e","g","e","r">> (* integer *), <<"f","l","o","a","t">> (* float *), <<"s","t","r","i","n","g">> (* string *), <<"l","i","s","t">> (* list *), <<"t","u","p","l","e">> (* tuple *), <<"d","i","c","t","i","o","n","a","r","y">> (* dictionary *), <<"s","e","t">>}

aggregate_funcs ==
  {<<"a","b","s">>, <<"m","a","x","o","f">> (* maxof *), <<"m","i","n","o","f">> (* minof *), <<"r","o","u","n","d">> (* round *), <<"s","u","m","o","f">> (* sumof *), <<"r","a","n","g","e">> (* range *), <<"e","n","u","m","e","r","a","t","e","a","r","r","a","y">> (* enumeratearray *), <<"h","e","l","p","f","u","n","c","t","i","o","n">> (* helpfunction *),
   <<"d","i","r","e","c","t","o","r","y","o","f">> (* directoryof *), <<"u","p","p","e","r","c","a","s","e">> (* uppercase *), <<"l","o","w","e","r","c","a","s","e">> (* lowercase *), <<"c","o","n","c","a","t">> (* concat *), <<"e","x","p","o","n","e","n","t">> (* exponent *)}

create_funcs == {<<"c","r","e","a","t","e","t","e","x","t">> (* createtext *), <<"c","r","e","a","t","e","a","r","r","a","y">> (* createarray *), <<"c","r","e","a","t","e","d","i","c","t","i","o","n","a","r","y">> (* createdictionary *)}

all_builtin_funcs ==
  builtin_funcs \cup list_array_funcs \cup dict_funcs \cup bool_funcs \cup math_funcs
    \cup file_funcs \cup screen_funcs \cup type_funcs \cup aggregate_funcs \cup create_funcs

\* ------------------------------------------------------------------------
\* Outcomes of a call: a returned text, a returned None, or a raised exception
\* ------------------------------------------------------------------------

\* return <text>
Ok(v) == [tag |-> "ok", value |-> v]

\* falling off the end of a function: return None
ReturnsNone == [tag |-> "none"]

\* raise Exception(message); IndexError and TypeError are Exceptions too
Exc(m) == [tag |-> "Exception", message |-> m]

\* raise DSLCompilerError(line_number, line_text, message)
DSLCompilerError(n, t, m) ==
  [tag |-> "DSLCompilerError", line_number |-> n, line_text |-> t, message |-> m]

\* tokens[k] with k past the end
IndexError == Exc("list index out of range")

\* str + None
TypeError == Exc("can only concatenate str (not \"NoneType\") to str")

\* f"{x}" of a call's outcome that did not raise: the text, or "None"
Formatted(r) == IF r.tag = "none" THEN <<"N","o","n","e">> (* None *) ELSE r.value

\* ------------------------------------------------------------------------
\* normalize_booleans (process_condition and process_text_in_args are never called)
\* ------------------------------------------------------------------------

normalize_booleans(tokens) ==
  [i \in 1..Len(tokens) |->
     IF Lower(tokens[i]) = <<"t","r","u","e">> (* true *) THEN <<"T","r","u","e">> (* True *)
     ELSE IF Lower(tokens[i]) = <<"f","a","l","s","e">> (* false *) THEN <<"F","a","l","s","e">> (* False *)
     ELSE tokens[i]]

\* ------------------------------------------------------------------------
\* compile_random_expression
\* ------------------------------------------------------------------------

\* the quoted, stripped options of "random text a, b"
RECURSIVE QuoteAll(_)
QuoteAll(parts) ==
  IF parts = <<>> THEN <<>>
  ELSE <<<<"\"">> \o Strip(parts[1]) \o <<"\"">>>> \o QuoteAll(Tail(parts))

compile_random_expression(tokens) ==
  LET t(k) == tokens[k + 1] IN
  IF Len(tokens) < 2 THEN IndexError
  ELSE IF t(1) = <<"n","u","m","b","e","r">> (* number *) THEN
    IF Len(tokens) # 5 \/ t(3) # <<"t","o">>
    THEN Exc("random number syntax: random number <min> to <max>")
    ELSE Ok(<<"r","a","n","d","o","m",".","r","a","n","d","i","n","t","(">> (* random.randint( *) \o t(2) \o <<","," ">> \o t(4) \o <<")">>)
  ELSE IF t(1) = <<"t","e","x","t">> (* text *) THEN
    Ok(<<"r","a","n","d","o","m",".","c","h","o","i","c","e","(","[">> (* random.choice([ *) \o
       Join(QuoteAll(SplitChar(Join(TokensFrom(tokens, 2), <<" ">>), ",")), <<","," ">>) \o <<"]",")">>)
  ELSE IF t(1) = <<"b","o","o","l","e","a","n">> (* boolean *) THEN
    IF Len(tokens) # 2
    THEN Exc("random boolean syntax: random boolean")
    ELSE Ok(<<"r","a","n","d","o","m",".","c","h","o","i","c","e","(","[","T","r","u","e",","," ","F","a","l","s","e","]",")">> (* random.choice([True, False]) *))
  ELSE Exc("Unknown random type")

\* ------------------------------------------------------------------------
\* compile_builtin_expression
\* ------------------------------------------------------------------------

\* the operations whose branch is "exactly one argument", with the text put before and after it
OneArgTemplate(name) ==
  IF name = <<"l","o","g","i","c","a","l","n","o","t">> (* logicalnot *) THEN <<<<"n","o","t"," ">> (* not  *), <<>>>>
  ELSE IF name = <<"l","e","n","g","t","h","o","f">> (* lengthof *) THEN <<<<"l","e","n","(">> (* len( *), <<")">>>>
  ELSE IF name = <<"t","y","p","e","o","f">> (* typeof *) THEN <<<<"t","y","p","e","(">> (* type( *), <<")",".","_","_","n","a","m","e","_","_">> (* ).__name__ *)>>
  ELSE IF name = <<"a","b","s">> THEN <<<<"a","b","s","(">> (* abs( *), <<")">>>>
  ELSE IF name = <<"r","o","u","n","d">> (* round *) THEN <<<<"r","o","u","n","d","(">> (* round( *), <<")">>>>
  ELSE IF name = <<"s","u","m","o","f">> (* sumof *) THEN <<<<"s","u","m","(">> (* sum( *), <<")">>>>
  ELSE IF name = <<"e","n","u","m","e","r","a","t","e","a","r","r","a","y">> (* enumeratearray *) THEN <<<<"l","i","s","t","(","e","n","u","m","e","r","a","t","e","(">> (* list(enumerate( *), <<")",")">>>>
  ELSE IF name = <<"h","e","l","p","f","u","n","c","t","i","o","n">> (* helpfunction *) THEN <<<<"h","e","l","p","(">> (* help( *), <<")">>>>
  ELSE IF name = <<"d","i","r","e","c","t","o","r","y","o","f">> (* directoryof *) THEN <<<<"d","i","r","(">> (* dir( *), <<")">>>>
  ELSE IF name = <<"u","p","p","e","r","c","a","s","e">> (* uppercase *) THEN <<<<"(">>, <<")",".","u","p","p","e","r","(",")">> (* ).upper() *)>>
  ELSE IF name = <<"l","o","w","e","r","c","a","s","e">> (* lowercase *) THEN <<<<"(">>, <<")",".","l","o","w","e","r","(",")">> (* ).lower() *)>>
  ELSE <<>>

\* the operations on a list: <op> list|array <list> <keyword> <value...>
ListOpTemplate(name) ==
  IF name = <<"a","p","p","e","n","d">> (* append *) THEN <<<<"v","a","l","u","e">> (* value *), <<".","a","p","p","e","n","d","(">> (* .append( *)>>
  ELSE IF name = <<"r","e","m","o","v","e">> (* remove *) THEN <<<<"v","a","l","u","e">> (* value *), <<".","r","e","m","o","v","e","(">> (* .remove( *)>>
  ELSE IF name = <<"p","o","p">> THEN <<<<"i","n","d","e","x">> (* index *), <<".","p","o","p","(">> (* .pop( *)>>
  ELSE IF name = <<"i","n","d","e","x","o","f">> (* indexof *) THEN <<<<"v","a","l","u","e">> (* value *), <<".","i","n","d","e","x","(">> (* .index( *)>>
  ELSE IF name = <<"c","o","u","n","t","o","f">> (* countof *) THEN <<<<"v","a","l","u","e">> (* value *), <<".","c","o","u","n","t","(">> (* .count( *)>>
  ELSE <<>>

\* the operations that take no argument
ZeroArgTemplate(name) ==
  IF name = <<"c","l","e","a","r","s","c","r","e","e","n">> (* clearscreen *) THEN <<"o","s",".","s","y","s","t","e","m","(","'","c","l","s","'"," ","i","f"," ","o","s",".","n","a","m","e"," ","=","="," ","'","n","t","'"," ","e","l","s","e"," ","'","c","l","e","a","r","'",")">> (* os.system('cls' if os.name == 'nt' else 'clear') *)
  ELSE IF name = <<"e","x","i","t","p","r","o","g","r","a","m">> (* exitprogram *) THEN <<"s","y","s",".","e","x","i","t","(",")">> (* sys.exit() *)
  ELSE IF name = <<"c","u","r","r","e","n","t","t","i","m","e">> (* currenttime *) THEN <<"d","a","t","e","t","i","m","e",".","d","a","t","e","t","i","m","e",".","n","o","w","(",")",".","s","t","r","f","t","i","m","e","(","'","%","H",":","%","M",":","%","S","'",")">> (* datetime.datetime.now().strftime('%H:%M:%S') *)
  ELSE IF name = <<"c","u","r","r","e","n","t","d","a","t","e">> (* currentdate *) THEN <<"d","a","t","e","t","i","m","e",".","d","a","t","e","t","i","m","e",".","n","o","w","(",")",".","s","t","r","f","t","i","m","e","(","'","%","Y","-","%","m","-","%","d","'",")">> (* datetime.datetime.now().strftime('%Y-%m-%d') *)
  ELSE IF name = <<"c","u","r","r","e","n","t","t","i","m","e","s","t","a","m","p">> (* currenttimestamp *) THEN <<"s","t","r","(","d","a","t","e","t","i","m","e",".","d","a","t","e","t","i","m","e",".","n","o","w","(",")",".","t","i","m","e","s","t","a","m","p","(",")",")">> (* str(datetime.datetime.now().timestamp()) *)
  ELSE <<>>

\* [f"str({arg})" for arg in tokens[1:]]
StrEach(args) == [i \in 1..Len(args) |-> <<"s","t","r","(">> (* str( *) \o args[i] \o <<")">>]

\* a with quotes around it unless it already starts and ends with a double quote
QuotedUnlessQuoted(a) ==
  IF StartsWith(a, <<"\"">>) /\ EndsWith(a, <<"\"">>) THEN a ELSE <<"\"">> \o a \o <<"\"">>

\* [a.strip() for a in args]
StripEach(args) == [i \in 1..Len(args) |-> Strip(args[i])]

RECURSIVE compile_builtin_expression(_)
\* the while loop of the createdictionary branch: i is the loop index into tokens,
\* dict_pairs the entries built so far
RECURSIVE DictionaryLoop(_, _, _)
RECURSIVE DictionaryPair(_, _, _, _, _)
DictionaryLoop(tokens, i, dict_pairs) ==
  LET t(k) == tokens[k + 1]
      n == Len(tokens)
      KeyOrValue(x) == x \in {<<"k","e","y">>, <<"v","a","l","u","e">> (* value *)}
  IN
  IF ~(i < n) THEN Ok(<<"{">> \o Join(dict_pairs, <<","," ">>) \o <<"}">>)
  ELSE IF t(i) # <<"k","e","y">> THEN
    DSLCompilerError(0, <<>>, "Syntax error in 'createdictionary': Expected keyword 'key'")
  ELSE IF ~(i + 1 < n) THEN IndexError
  ELSE IF ~(i + 2 < n) THEN IndexError
  ELSE IF t(i + 2) # <<"v","a","l","u","e">> (* value *) THEN
    DSLCompilerError(0, <<>>, "Syntax error in 'createdictionary': Expected keyword 'value'")
  ELSE
    LET key_token == t(i + 1)
        \* the first index from i + 3 that holds key or value, or n
        stop == IF \E j \in (i + 3)..(n - 1) : KeyOrValue(t(j))
                THEN CHOOSE j \in (i + 3)..(n - 1) :
                       KeyOrValue(t(j)) /\ \A m \in (i + 3)..(j - 1) : ~KeyOrValue(t(m))
                ELSE n
        value_tokens == SubSeq(tokens, i + 4, stop)
    IN
    IF value_tokens = <<>> THEN
      DSLCompilerError(0, <<>>, "Syntax error in 'createdictionary': Missing value after 'value' keyword")
    ELSE
      DictionaryPair(tokens, stop, dict_pairs, key_token,
                     IF value_tokens[1] \in builtin_funcs
                     THEN compile_builtin_expression(value_tokens)
                     ELSE Ok(<<"\"">> \o Join(value_tokens, <<" ">>) \o <<"\"">>))

\* the new entry put in front of dict_pairs instead of behind it
DictionaryPairInFront(tokens, i, dict_pairs, key_token, value_expr) ==
  IF value_expr.tag \in {"Exception", "DSLCompilerError"} THEN value_expr
  ELSE DictionaryLoop(tokens, i,
         <<<<"'">> \o key_token \o <<"'",":"," ">> \o Formatted(value_expr)>> \o dict_pairs)

\* dict_pairs.append(f"'{key_token}': {value_expr}"), then the next turn of the loop;
\* an exception of the nested call leaves the loop
DictionaryPair(tokens, i, dict_pairs, key_token, value_expr) ==
  IF value_expr.tag \in {"Exception", "DSLCompilerError"} THEN value_expr
  ELSE DictionaryLoop(tokens, i,
         Append(dict_pairs, <<"'">> \o key_token \o <<"'",":"," ">> \o Formatted(value_expr)))

\* the keyword-framed text operations substring, replace, split and join
TextOps(tokens) ==
  LET t(k) == tokens[k + 1]
      n == Len(tokens)
      func_name == t(0)
      Q(a) == <<"\"">> \o a \o <<"\"">>
  IN
  IF n < 2 THEN IndexError
  ELSE IF func_name = <<"s","u","b","s","t","r","i","n","g">> (* substring *) THEN
    IF t(1) = <<"t","e","x","t">> (* text *) THEN
      IF n # 7 THEN Exc("substring with literal requires: substring text <literal> start <start> length <length>")
      ELSE IF t(3) # <<"s","t","a","r","t">> (* start *) \/ t(5) # <<"l","e","n","g","t","h">> (* length *) THEN Exc("substring syntax must include 'start' and 'length'")
      ELSE Ok(<<"(">> \o Q(t(2)) \o <<")","[">> \o t(4) \o <<":">> \o t(4) \o <<"+">> \o t(6) \o <<"]">>)
    ELSE
      IF n # 6 THEN Exc("substring with variable requires: substring <variable> start <start> length <length>")
      ELSE IF t(2) # <<"s","t","a","r","t">> (* start *) \/ t(4) # <<"l","e","n","g","t","h">> (* length *) THEN Exc("substring syntax must include 'start' and 'length'")
      ELSE Ok(<<"(">> \o t(1) \o <<")","[">> \o t(3) \o <<":">> \o t(3) \o <<"+">> \o t(5) \o <<"]">>)
  ELSE IF func_name = <<"r","e","p","l","a","c","e">> (* replace *) THEN
    IF t(1) = <<"t","e","x","t">> (* text *) THEN
      IF n # 7 THEN Exc("replace with literal requires: replace text <literal> old <old> new <new>")
      ELSE IF t(3) # <<"o","l","d">> \/ t(5) # <<"n","e","w">> THEN Exc("replace syntax must include 'old' and 'new'")
      ELSE Ok(<<"(">> \o Q(t(2)) \o <<")",".","r","e","p","l","a","c","e","(">> (* ).replace( *) \o Q(t(4)) \o <<","," ">> \o Q(t(6)) \o <<")">>)
    ELSE
      IF n # 6 THEN Exc("replace with variable requires: replace <variable> old <old> new <new>")
      ELSE IF t(2) # <<"o","l","d">> \/ t(4) # <<"n","e","w">> THEN Exc("replace syntax must include 'old' and 'new'")
      ELSE Ok(<<"(">> \o t(1) \o <<")",".","r","e","p","l","a","c","e","(">> (* ).replace( *) \o t(3) \o <<","," ">> \o t(5) \o <<")">>)
  ELSE IF func_name = <<"s","p","l","i","t">> (* split *) THEN
    IF t(1) = <<"t","e","x","t">> (* text *) THEN
      IF n # 5 THEN Exc("split with literal requires: split text <literal> by <separator>")
      ELSE IF t(3) # <<"b","y">> THEN Exc("split syntax must include 'by'")
      ELSE Ok(<<"(">> \o Q(t(2)) \o <<")",".","s","p","l","i","t","(">> (* ).split( *) \o Q(t(4)) \o <<")">>)
    ELSE
      IF n # 4 THEN Exc("split with variable requires: split <variable> by <separator>")
      ELSE IF t(2) # <<"b","y">> THEN Exc("split syntax must include 'by'")
      ELSE Ok(<<"(">> \o t(1) \o <<")",".","s","p","l","i","t","(">> (* ).split( *) \o Q(t(3)) \o <<")">>)
  ELSE \* join
    IF t(1) = <<"l","i","s","t">> (* list *) THEN
      IF n # 5 THEN Exc("join with literal separator requires: join list <list> by <separator>")
      ELSE IF t(3) # <<"b","y">> THEN Exc("join syntax must include 'by'")
      ELSE Ok(QuotedUnlessQuoted(t(4)) \o <<".","j","o","i","n","(","[","s","t","r","(","i","t","e","m",")"," ","f","o","r"," ","i","t","e","m"," ","i","n"," ">> (* .join([str(item) for item in  *) \o t(2) \o <<"]",")">>)
    ELSE
      IF n # 4 THEN Exc("join with variable requires: join <list> by <separator>")
      ELSE IF t(2) # <<"b","y">> THEN Exc("join syntax must include 'by'")
      ELSE Ok(QuotedUnlessQuoted(t(3)) \o <<".","j","o","i","n","(","[","s","t","r","(","i","t","e","m",")"," ","f","o","r"," ","i","t","e","m"," ","i","n"," ">> (* .join([str(item) for item in  *) \o t(1) \o <<"]",")">>)

\* the branches guarded by "<name> and tokens[1] == ...": list, dictionary and file operations.
\* The guard reads tokens[1]; when it is false the chain goes on and no later branch matches.
GuardedOps(tokens) ==
  LET t(k) == tokens[k + 1]
      n == Len(tokens)
      func_name == t(0)
      rest(k) == Join(TokensFrom(tokens, k), <<" ">>)
  IN
  IF n < 2 THEN IndexError
  ELSE IF ListOpTemplate(func_name) # <<>> THEN
    IF t(1) \notin {<<"l","i","s","t">> (* list *), <<"a","r","r","a","y">> (* array *)} THEN ReturnsNone
    ELSE IF n < 4 THEN Exc("list/array operation requires: <op> list|array <list_or_array> <keyword> <value>")
    ELSE IF t(3) # ListOpTemplate(func_name)[1] THEN Exc("syntax must include the keyword")
    ELSE Ok(t(2) \o ListOpTemplate(func_name)[2] \o rest(4) \o <<")">>)
  ELSE IF func_name \in {<<"s","o","r","t","l","i","s","t">> (* sortlist *), <<"u","n","i","q","u","e","l","i","s","t">> (* uniquelist *)} THEN
    IF t(1) \notin {<<"l","i","s","t">> (* list *), <<"a","r","r","a","y">> (* array *)} THEN ReturnsNone
    ELSE IF n # 3 THEN Exc("requires: <op> list|array <list_or_array>")
    ELSE IF func_name = <<"s","o","r","t","l","i","s","t">> (* sortlist *) THEN Ok(t(2) \o <<".","s","o","r","t","(",")">> (* .sort() *))
    ELSE Ok(<<"l","i","s","t","(","d","i","c","t",".","f","r","o","m","k","e","y","s","(">> (* list(dict.fromkeys( *) \o t(2) \o <<")",")">>)
  ELSE IF func_name \in dict_funcs THEN
    IF t(1) # <<"d","i","c","t","i","o","n","a","r","y">> (* dictionary *) THEN ReturnsNone
    ELSE IF func_name = <<"k","e","y","s","f","r","o","m","d","i","c","t","i","o","n","a","r","y">> (* keysfromdictionary *) THEN
      IF n # 3 THEN Exc("keysfromdictionary dictionary requires: keys dictionary <dictionary>")
      ELSE Ok(<<"l","i","s","t","(">> (* list( *) \o t(2) \o <<".","k","e","y","s","(",")",")">> (* .keys()) *))
    ELSE IF func_name = <<"v","a","l","u","e","s","f","r","o","m","d","i","c","t","i","o","n","a","r","y">> (* valuesfromdictionary *) THEN
      IF n # 3 THEN Exc("valuesfromdictionary dictionary requires: values dictionary <dictionary>")
      ELSE Ok(<<"l","i","s","t","(">> (* list( *) \o t(2) \o <<".","v","a","l","u","e","s","(",")",")">> (* .values()) *))
    ELSE IF func_name = <<"g","e","t","v","a","l","u","e","f","r","o","m","d","i","c","t","i","o","n","a","r","y">> (* getvaluefromdictionary *) THEN
      IF n # 5 \/ t(3) # <<"k","e","y">> THEN Exc("getvaluefromdictionary dictionary requires: getvaluefromdictionary dictionary <dictionary> key <key>")
      ELSE Ok(t(2) \o <<".","g","e","t","(">> (* .get( *) \o t(4) \o <<")">>)
    ELSE IF func_name = <<"s","e","t","v","a","l","u","e","i","n","d","i","c","t","i","o","n","a","r","y">> (* setvalueindictionary *) THEN
      IF n < 6 \/ t(3) # <<"k","e","y">> \/ t(5) # <<"v","a","l","u","e">> (* value *) THEN Exc("setvalueindictionary dictionary requires: setvalueindictionary dictionary <dictionary> key <key> value <value>")
      ELSE LET value_tokens == TokensFrom(tokens, 6)
               value_expr == IF value_tokens # <<>> /\ value_tokens[1] = <<"t","e","x","t">> (* text *)
                             THEN <<"\"">> \o Join(Tail(value_tokens), <<" ">>) \o <<"\"">>
                             ELSE Join(value_tokens, <<" ">>)
           IN Ok(t(2) \o <<"[">> \o t(4) \o <<"]"," ","="," ">> (* ] =  *) \o value_expr)
    ELSE \* removekeyfromdictionary
      IF n # 5 \/ t(2) # <<"k","e","y">> THEN Exc("removekeyfromdictionary dictionary requires: removekeyfromdictionary dictionary <dictionary> key <key>")
      ELSE Ok(<<"d","e","l"," ">> (* del  *) \o t(3) \o <<"[">> \o t(4) \o <<"]">>)
  ELSE \* readfile, writefile, appendfile
    IF t(1) # <<"f","i","l","e">> (* file *) THEN ReturnsNone
    ELSE IF func_name = <<"r","e","a","d","f","i","l","e">> (* readfile *) THEN
      IF n # 3 THEN Exc("readfile file requires: read file <path>")
      ELSE Ok(<<"o","p","e","n","(","\"">> (* open('' *) \o t(2) \o <<"\"",")",".","r","e","a","d","(",")">> (* '').read() *))
    ELSE
      IF n < 5 \/ t(3) # <<"t","e","x","t">> (* text *) THEN Exc("file requires: <op> file <path> text <content>")
      ELSE Ok(<<"o","p","e","n","(","\"">> (* open('' *) \o t(2) \o <<"\"",","," ","\"">> (* '', '' *) \o (IF func_name = <<"w","r","i","t","e","f","i","l","e">> (* writefile *) THEN <<"w">> ELSE <<"a">>)
              \o <<"\"",")",".","w","r","i","t","e","(","\"">> (* '').write('' *) \o rest(4) \o <<"\"",")">>)

\* the chain of branches on func_name, over the normalised tokens
BuiltinBranches(tokens) ==
  LET t(k) == tokens[k + 1]
      n == Len(tokens)
      func_name == t(0)
      rest(k) == Join(TokensFrom(tokens, k), <<" ">>)
  IN
  IF func_name = <<"t","e","x","t">> (* text *) THEN
    IF n < 2 THEN Exc("text requires a literal")
    ELSE Ok(<<"\"">> \o rest(1) \o <<"\"">>)
  ELSE IF func_name \in math_funcs_mapping THEN
    IF n # 2 THEN Exc("function requires one argument")
    ELSE Ok(<<"m","a","t","h",".">> (* math. *) \o func_name \o <<"(">> \o t(1) \o <<")">>)
  ELSE IF func_name = <<"m","o","d">> THEN
    LET args == SplitChar(rest(1), ",") IN
    IF Len(args) # 2 THEN Exc("mod function requires two arguments separated by a comma")
    ELSE Ok(<<"(">> \o Strip(args[1]) \o <<")"," ","%"," ","(">> (* ) % ( *) \o Strip(args[2]) \o <<")">>)
  ELSE IF func_name = <<"l","o","g">> THEN
    LET args == SplitChar(rest(1), ",") IN
    IF Len(args) # 2 THEN Exc("log function requires two arguments (number, base) separated by a comma")
    ELSE Ok(<<"m","a","t","h",".","l","o","g","(">> (* math.log( *) \o Strip(args[1]) \o <<","," ">> \o Strip(args[2]) \o <<")">>)
  ELSE IF func_name \in {<<"s","u","b","s","t","r","i","n","g">> (* substring *), <<"r","e","p","l","a","c","e">> (* replace *), <<"s","p","l","i","t">> (* split *), <<"j","o","i","n">> (* join *)} THEN TextOps(tokens)
  ELSE IF func_name = <<"r","e","v","e","r","s","e">> (* reverse *) THEN
    IF n >= 2 /\ t(1) = <<"t","e","x","t">> (* text *) THEN
      IF n # 3 THEN Exc("reverse text requires: reverse text <literal_or_variable>")
      ELSE Ok(<<"(","\"","\"",".","j","o","i","n","(","r","e","v","e","r","s","e","d","(","\"">> (* (''''.join(reversed('' *) \o t(2) \o <<"\"",")",")",")">> (* ''))) *))
    ELSE IF n >= 2 /\ t(1) \in {<<"l","i","s","t">> (* list *), <<"a","r","r","a","y">> (* array *)} THEN
      IF n # 3 THEN Exc("reverse list/array requires: reverse list <list> or reverse array <array>")
      ELSE Ok(t(2) \o <<"[",":",":","-","1","]">> (* [::-1] *))
    ELSE IF n # 2 THEN Exc("reverse requires either 'text' or 'list/array' and one argument")
    ELSE Ok(<<"(","\"","\"",".","j","o","i","n","(","r","e","v","e","r","s","e","d","(">> (* (''''.join(reversed( *) \o t(1) \o <<")",")",")">>)
  ELSE IF \/ ListOpTemplate(func_name) # <<>>
          \/ func_name \in {<<"s","o","r","t","l","i","s","t">> (* sortlist *), <<"u","n","i","q","u","e","l","i","s","t">> (* uniquelist *)}
          \/ func_name \in dict_funcs
          \/ func_name \in file_funcs THEN
    \* logicalnot .. logicalxor stand between the list and the dictionary branches
    \* in the source; the names are distinct, so the order among them is immaterial
    GuardedOps(tokens)
  ELSE IF OneArgTemplate(func_name) # <<>> THEN
    IF n # 2 THEN Exc("function requires one argument")
    ELSE Ok(OneArgTemplate(func_name)[1] \o t(1) \o OneArgTemplate(func_name)[2])
  ELSE IF func_name \in {<<"l","o","g","i","c","a","l","a","n","d">> (* logicaland *), <<"l","o","g","i","c","a","l","o","r">> (* logicalor *)} THEN
    IF n # 3 THEN Exc("function requires two arguments")
    ELSE Ok(<<"(">> \o t(1) \o <<")"," ">> \o DropFirst(func_name, 7) \o <<" ","(">> \o t(2) \o <<")">>)
  ELSE IF func_name = <<"l","o","g","i","c","a","l","x","o","r">> (* logicalxor *) THEN
    IF n # 3 THEN Exc("logicalxor function requires two arguments")
    ELSE Ok(<<"(","(">> \o t(1) \o <<")"," ","a","n","d"," ","(","n","o","t"," ">> (* ) and (not  *) \o t(2) \o <<")",")"," ","o","r"," ","(","(","n","o","t"," ">> (* )) or ((not  *) \o t(1) \o <<")"," ","a","n","d"," ","(">> (* ) and ( *) \o t(2) \o <<")",")">>)
  ELSE IF func_name \in {<<"m","a","x","o","f">> (* maxof *), <<"m","i","n","o","f">> (* minof *)} THEN
    LET args == Join(TokensFrom(tokens, 1), <<","," ">>) IN
    IF args = <<>> THEN Exc("function requires at least one argument")
    ELSE Ok(SubSeq(func_name, 1, 3) \o <<"(">> \o args \o <<")">>)
  ELSE IF func_name = <<"r","a","n","g","e">> (* range *) THEN
    LET args == StripEach(SplitChar(Join(TokensFrom(tokens, 1), <<","," ">>), ",")) IN
    IF ~(1 <= Len(args) /\ Len(args) <= 2)
    THEN Exc("range function requires one or two arguments (end) or (start, end)")
    ELSE IF Len(args) = 1 THEN Ok(<<"l","i","s","t","(","r","a","n","g","e","(">> (* list(range( *) \o args[1] \o <<")",")">>)
    ELSE Ok(<<"l","i","s","t","(","r","a","n","g","e","(">> (* list(range( *) \o args[1] \o <<","," ">> \o args[2] \o <<" ","+"," ","1",")",")">> (*  + 1)) *))
  ELSE IF func_name = <<"c","o","n","c","a","t">> (* concat *) THEN
    IF n < 3 THEN Exc("concat function requires at least two arguments (texts)")
    ELSE Ok(<<"(","'","'",")",".","j","o","i","n","(","[">> (* ('').join([ *) \o Join(StrEach(TokensFrom(tokens, 1)), <<","," ">>) \o <<"]",")">>)
  ELSE IF func_name = <<"e","x","p","o","n","e","n","t">> (* exponent *) THEN
    IF n # 3 THEN Exc("exponent function requires two arguments (base, exponent)")
    ELSE Ok(<<"(">> \o t(1) \o <<")","*","*","(">> (* )**( *) \o t(2) \o <<")">>)
  ELSE IF ZeroArgTemplate(func_name) # <<>> THEN
    IF n # 1 THEN Exc("function does not require any arguments")
    ELSE Ok(ZeroArgTemplate(func_name))
  ELSE IF func_name = <<"c","r","e","a","t","e","t","e","x","t">> (* createtext *) THEN
    IF n < 2 THEN Exc("createtext function requires at least one argument (text literal)")
    ELSE Ok(<<"\"">> \o rest(1) \o <<"\"">>)
  ELSE IF func_name = <<"c","r","e","a","t","e","a","r","r","a","y">> (* createarray *) THEN
    IF n < 2 THEN Exc("createarray function requires at least one argument (array elements)")
    ELSE Ok(<<"[">> \o Join(TokensFrom(tokens, 1), <<","," ">>) \o <<"]">>)
  ELSE IF func_name = <<"c","r","e","a","t","e","d","i","c","t","i","o","n","a","r","y">> (* createdictionary *) THEN
    IF (n - 1) % 4 # 0
    THEN DSLCompilerError(0, <<>>, "Syntax error in 'createdictionary': Incorrect number of arguments")
    ELSE DictionaryLoop(tokens, 1, <<>>)
  ELSE ReturnsNone

compile_builtin_expression(tokens) == BuiltinBranches(normalize_booleans(tokens))

\* ------------------------------------------------------------------------
\* compile_language: the statement forms
\* ------------------------------------------------------------------------

\* line.split("#", 1)[0].rstrip() followed by line.strip()
stripped_line(line) == Strip(RStrip(SplitOnce(line, "#")[1]))

\* the outcome of one statement: what the branch yields (the text to append, or the
\* exception it raises), whether the branch set random_used, and whether a call of
\* compile_random_expression returned in it
Stmt(r, rnd) == [res |-> r, random |-> rnd, called |-> FALSE]

\* expr = compile_random_expression(tokens) followed by random_used = True:
\* the assignment is reached exactly when the call returns
RandomStmt(r) == [res |-> r, random |-> r.tag = "ok", called |-> r.tag = "ok"]

\* the tests in the same order, but with the end test before the end program test and
\* matching every line that starts with end
KindEndByPrefix(s) ==
  IF HasChar(s, "[") /\ HasChar(s, "]") /\ HasChar(s, "=") /\ ~StartsWith(s, <<"s","t","o","r","a","g","e">> (* storage *))
    THEN "index_assignment"
  ELSE IF /\ HasChar(s, "=") /\ ~StartsWith(s, <<"s","t","o","r","a","g","e">> (* storage *))
          /\ ~StartsWith(s, <<"i","f"," ">>) /\ ~StartsWith(s, <<"w","h","i","l","e"," ">> (* while  *))
          /\ ~StartsWith(s, <<"f","o","r"," ">> (* for  *)) /\ ~StartsWith(s, <<"p","r","i","n","t"," ">> (* print  *))
    THEN "assignment"
  ELSE IF StartsWith(Lower(s), <<"e","n","d">>) THEN "end"
  ELSE IF Lower(s) = <<"e","n","d"," ","p","r","o","g","r","a","m">> (* end program *) THEN "end_program"
  ELSE IF StartsWith(s, <<"i","f"," ">>) THEN "if"
  ELSE IF StartsWith(s, <<"w","h","i","l","e"," ">> (* while  *)) THEN "while"
  ELSE IF StartsWith(s, <<"f","o","r"," ">> (* for  *)) THEN "for"
  ELSE IF StartsWith(s, <<"p","r","i","n","t">> (* print *)) THEN "print"
  ELSE IF StartsWith(s, <<"s","t","o","r","a","g","e">> (* storage *)) THEN "storage"
  ELSE "bare"

\* the order in which the try block tests the statement forms
Kind(s) ==
  IF HasChar(s, "[") /\ HasChar(s, "]") /\ HasChar(s, "=") /\ ~StartsWith(s, <<"s","t","o","r","a","g","e">> (* storage *))
    THEN "index_assignment"
  ELSE IF /\ HasChar(s, "=") /\ ~StartsWith(s, <<"s","t","o","r","a","g","e">> (* storage *))
          /\ ~StartsWith(s, <<"i","f"," ">>) /\ ~StartsWith(s, <<"w","h","i","l","e"," ">> (* while  *))
          /\ ~StartsWith(s, <<"f","o","r"," ">> (* for  *)) /\ ~StartsWith(s, <<"p","r","i","n","t"," ">> (* print  *))
    THEN "assignment"
  ELSE IF Lower(s) = <<"e","n","d"," ","p","r","o","g","r","a","m">> (* end program *) THEN "end_program"
  ELSE IF Lower(s) = <<"e","n","d">> THEN "end"
  ELSE IF StartsWith(s, <<"i","f"," ">>) THEN "if"
  ELSE IF StartsWith(s, <<"w","h","i","l","e"," ">> (* while  *)) THEN "while"
  ELSE IF StartsWith(s, <<"f","o","r"," ">> (* for  *)) THEN "for"
  ELSE IF StartsWith(s, <<"p","r","i","n","t">> (* print *)) THEN "print"
  ELSE IF StartsWith(s, <<"s","t","o","r","a","g","e">> (* storage *)) THEN "storage"
  ELSE "bare"

\* output_lines.append(... f"{lhs} = {rhs_expr}"), unless computing rhs_expr raised
AssignmentLine(lhs, rhs_expr) ==
  IF rhs_expr.tag = "ok" THEN Ok(lhs \o <<" ","="," ">> \o rhs_expr.value) ELSE rhs_expr

\* name[...] = value
IndexAssignment(s) ==
  LET lhs == Strip(SplitOnce(s, "=")[1])
      rhs_tokens == Split(SplitOnce(s, "=")[2])
  IN AssignmentLine(lhs, IF rhs_tokens # <<>> /\ rhs_tokens[1] = <<"t","e","x","t">> (* text *)
                         THEN compile_builtin_expression(rhs_tokens)
                         ELSE Ok(Join(normalize_booleans(rhs_tokens), <<" ">>)))

\* name = value
PlainAssignment(s) ==
  LET lhs == Strip(SplitOnce(s, "=")[1])
      rhs_tokens == Split(SplitOnce(s, "=")[2])
  IN AssignmentLine(lhs, Ok(Join(normalize_booleans(rhs_tokens), <<" ">>)))

\* if <condition> [is true|is false]
IfStatement(s, n, original_line) ==
  LET c0 == RStrip(DropFirst(s, 3))
      condition_line == IF EndsWith(c0, <<":">>) THEN RStrip(DropLast(c0, 1)) ELSE c0
  IN
  IF condition_line = <<>>
  THEN DSLCompilerError(n, original_line, "Missing condition in if statement.")
  ELSE IF EndsWith(condition_line, <<" ","i","s"," ","t","r","u","e">> (*  is true *)) THEN
    LET condition_expr == Strip(DropLast(condition_line, 8)) IN
    IF condition_expr = <<>>
    THEN DSLCompilerError(n, original_line, "Empty condition before 'is true'.")
    ELSE Ok(<<"i","f"," ">> \o condition_expr \o <<":">>)
  ELSE IF EndsWith(condition_line, <<" ","i","s"," ","f","a","l","s","e">> (*  is false *)) THEN
    LET condition_expr == Strip(DropLast(condition_line, 9)) IN
    IF condition_expr = <<>>
    THEN DSLCompilerError(n, original_line, "Empty condition before 'is false'.")
    ELSE Ok(<<"i","f"," ","n","o","t"," ","(">> (* if not ( *) \o condition_expr \o <<")",":">>)
  ELSE Ok(<<"i","f"," ">> \o condition_line \o <<":">>)

\* while <condition> [do]
WhileStatement(s, n, original_line) ==
  LET l0 == RStrip(DropFirst(s, 6))
      loop_line == IF EndsWith(l0, <<" ","d","o">>) THEN RStrip(DropLast(l0, 3)) ELSE l0
  IN
  IF loop_line = <<>>
  THEN DSLCompilerError(n, original_line, "Missing condition in while loop.")
  ELSE Ok(<<"w","h","i","l","e"," ">> (* while  *) \o loop_line \o <<":">>)

\* for <start> to <end> do
ForStatement(s, n, original_line) ==
  LET tokens == Split(s) IN
  IF Len(tokens) # 5 \/ tokens[3] # <<"t","o">> \/ tokens[5] # <<"d","o">>
  THEN DSLCompilerError(n, original_line, "Invalid for loop syntax. Expected: for <start> to <end> do")
  ELSE IF tokens[2] = <<>> \/ tokens[4] = <<>>
  THEN DSLCompilerError(n, original_line, "Missing start or end value in for loop.")
  ELSE Ok(<<"f","o","r"," ","i"," ","i","n"," ","r","a","n","g","e","(">> (* for i in range( *) \o tokens[2] \o <<","," ">> \o tokens[4] \o <<" ","+"," ","1",")",":">> (*  + 1): *))

\* the branches of the print statement on expr and tokens = expr.split()
PrintBranches(expr, tokens, n, original_line) ==
  LET Wrap(r) == IF r.tag \in {"ok", "none"}
                 THEN Ok(<<"p","r","i","n","t","(">> (* print( *) \o Formatted(r) \o <<")">>)
                 ELSE r
      Wrapped(st) == [st EXCEPT !.res = Wrap(st.res)]
  IN
  IF expr = <<>>
  THEN Stmt(DSLCompilerError(n, original_line, "Missing expression in print command."), FALSE)
  ELSE IF Len(tokens) = 1 /\ tokens[1] \in {<<"c","u","r","r","e","n","t","t","i","m","e">> (* currenttime *), <<"c","u","r","r","e","n","t","d","a","t","e">> (* currentdate *), <<"c","u","r","r","e","n","t","t","i","m","e","s","t","a","m","p">> (* currenttimestamp *)}
  THEN Stmt(Wrap(compile_builtin_expression(tokens)), FALSE)
  ELSE IF Len(tokens) = 1 THEN Stmt(Ok(<<"p","r","i","n","t","(">> (* print( *) \o expr \o <<")">>), FALSE)
  ELSE IF tokens[1] = <<"t","e","x","t">> (* text *) THEN
    LET literal == Strip(Join(Tail(tokens), <<" ">>)) IN
    IF \/ StartsWith(literal, <<"\"">>) /\ EndsWith(literal, <<"\"">>)
       \/ StartsWith(literal, <<"'">>) /\ EndsWith(literal, <<"'">>)
    THEN Stmt(Ok(<<"p","r","i","n","t","(">> (* print( *) \o literal \o <<")">>), FALSE)
    ELSE Stmt(Ok(<<"p","r","i","n","t","(","\"">> (* print('' *) \o literal \o <<"\"",")">>), FALSE)
  ELSE IF tokens[1] = <<"s","t","o","r","a","g","e">> (* storage *) THEN
    IF Join(Tail(tokens), <<" ">>) = <<>>
    THEN Stmt(DSLCompilerError(n, original_line, "Missing variable name in print command."), FALSE)
    ELSE Stmt(Ok(<<"p","r","i","n","t","(">> (* print( *) \o Join(Tail(tokens), <<" ">>) \o <<")">>), FALSE)
  ELSE IF tokens[1] = <<"r","a","n","d","o","m">> (* random *) THEN Wrapped(RandomStmt(compile_random_expression(tokens)))
  ELSE IF tokens[1] \in all_builtin_funcs
  THEN Stmt(Wrap(compile_builtin_expression(tokens)), FALSE)
  ELSE Stmt(Ok(<<"p","r","i","n","t","(">> (* print( *) \o expr \o <<")">>), FALSE)

\* print ...
PrintStatement(s, n, original_line) ==
  PrintBranches(Strip(DropFirst(s, 5)), Split(Strip(DropFirst(s, 5))), n, original_line)

\* a call's outcome as it appears inside an f-string: a returned None reads "None"
NoneAsText(r) == IF r.tag = "none" THEN Ok(<<"N","o","n","e">> (* None *)) ELSE r

\* the value expression of a declaration of type typ, before the numeric coercion
StorageValue(typ, expression_tokens, plain, n, original_line) ==
  IF \E i \in 1..Len(expression_tokens) : expression_tokens[i] \in {<<"+">>, <<"-">>, <<"*">>, <<"/">>, <<"%">>}
  THEN Stmt(Ok(plain), FALSE)
  ELSE IF expression_tokens[1] = <<"r","a","n","d","o","m">> (* random *)
  THEN RandomStmt(compile_random_expression(expression_tokens))
  ELSE IF expression_tokens[1] = <<"t","e","x","t">> (* text *)
  THEN Stmt(Ok(<<"\"">> \o Strip(Join(Tail(expression_tokens), <<" ">>)) \o <<"\"">>), FALSE)
  ELSE IF expression_tokens[1] \in all_builtin_funcs
  THEN Stmt(NoneAsText(compile_builtin_expression(expression_tokens)), FALSE)
  ELSE IF typ = <<"t","e","x","t">> (* text *) /\ ~(StartsWith(plain, <<"\"">>) \/ StartsWith(plain, <<"'">>))
  THEN Stmt(Ok(<<"\"">> \o plain \o <<"\"">>), FALSE)
  ELSE IF typ = <<"b","o","o","l","e","a","n">> (* boolean *) THEN
    IF Lower(plain) = <<"t","r","u","e">> (* true *) THEN Stmt(Ok(<<"T","r","u","e">> (* True *)), FALSE)
    ELSE IF Lower(plain) = <<"f","a","l","s","e">> (* false *) THEN Stmt(Ok(<<"F","a","l","s","e">> (* False *)), FALSE)
    ELSE Stmt(DSLCompilerError(n, original_line, "Invalid boolean value."), FALSE)
  ELSE Stmt(Ok(plain), FALSE)

\* the assignment text with the coercion of number only: integer and float
\* declarations are left as they are
StorageLineNumberOnly(typ, var_name, value) ==
  IF value.res.tag # "ok" THEN value
  ELSE [value EXCEPT !.res =
          Ok(var_name \o <<" ","="," ">> \o
             (IF typ = <<"n","u","m","b","e","r">> (* number *) THEN <<"i","n","t","(">> (* int( *) \o value.res.value \o <<")">>
              ELSE value.res.value))]

\* the numeric coercion and the assignment text, unless computing the value raised
StorageLine(typ, var_name, value) ==
  IF value.res.tag # "ok" THEN value
  ELSE [value EXCEPT !.res =
          Ok(var_name \o <<" ","="," ">> \o
             (IF typ = <<"f","l","o","a","t">> (* float *) THEN <<"f","l","o","a","t","(">> (* float( *) \o value.res.value \o <<")">>
              ELSE IF typ \in {<<"n","u","m","b","e","r">> (* number *), <<"i","n","t","e","g","e","r">> (* integer *)} THEN <<"i","n","t","(">> (* int( *) \o value.res.value \o <<")">>
              ELSE value.res.value))]

\* the checks of the declaration's parts = stripped_line[len("storage"):].strip().split()
StorageParts(parts, n, original_line) ==
  LET Err(m) == Stmt(DSLCompilerError(n, original_line, m), FALSE) IN
  IF Len(parts) < 3 THEN Err("Incomplete 'storage' command.")
  ELSE IF Lower(parts[1]) \notin allowed_types THEN Err("Invalid storage type.")
  ELSE IF ~IsIdentifier(parts[2]) THEN Err("Invalid variable name.")
  ELSE IF parts[3] # <<"=">> THEN Err("Syntax error in 'storage' command: Missing '='.")
  ELSE IF TokensFrom(parts, 3) = <<>>
  THEN Err("Missing value expression after '=' in 'storage' command.")
  ELSE StorageLine(Lower(parts[1]), parts[2],
         StorageValue(Lower(parts[1]), TokensFrom(parts, 3),
                      Join(normalize_booleans(TokensFrom(parts, 3)), <<" ">>), n, original_line))

\* storage <type> <name> = <value...>
StorageStatement(s, n, original_line) ==
  StorageParts(Split(Strip(DropFirst(s, 7))), n, original_line)

\* "    " * indent + expr_compiled: a TypeError when the call returned None
Appended(r) == IF r.tag = "none" THEN TypeError ELSE r

\* the tokens the last group of branches hands to compile_builtin_expression, or <<>>
\* when the line is an unknown command
BareCall(tokens) ==
  IF Len(tokens) > 1 /\ tokens[2] \in list_array_funcs
  THEN <<tokens[2], <<"a","r","r","a","y">> (* array *), tokens[1]>> \o TokensFrom(tokens, 2)
  ELSE IF tokens[1] \in list_array_funcs THEN tokens
  ELSE IF tokens[1] \in all_builtin_funcs THEN tokens
  ELSE IF tokens[1] = <<"c","l","e","a","r">> (* clear *) /\ Len(tokens) > 1 /\ tokens[2] = <<"s","c","r","e","e","n">> (* screen *) THEN <<<<"c","l","e","a","r","s","c","r","e","e","n">> (* clearscreen *)>>
  ELSE IF tokens[1] = <<"e","x","i","t">> (* exit *) /\ Len(tokens) > 1 /\ tokens[2] = <<"p","r","o","g","r","a","m">> (* program *) THEN <<<<"e","x","i","t","p","r","o","g","r","a","m">> (* exitprogram *)>>
  ELSE <<>>

\* a bare builtin call, <name> <list operation> ..., clear screen, exit program, or an unknown command
BareStatement(s, n, original_line) ==
  IF BareCall(Split(s)) # <<>> THEN Appended(compile_builtin_expression(BareCall(Split(s))))
  ELSE IF Split(s)[1] = <<"c","l","e","a","r">> (* clear *)
  THEN DSLCompilerError(n, original_line, "Unknown command. Did you mean 'clear screen'?")
  ELSE IF Split(s)[1] = <<"e","x","i","t">> (* exit *)
  THEN DSLCompilerError(n, original_line, "Unknown command. Did you mean 'exit program'?")
  ELSE DSLCompilerError(n, original_line, "Unknown command")

\* the header with "import random" whatever the flag says
header_lines_unconditional(used) ==
  <<<<"i","m","p","o","r","t"," ","m","a","t","h">> (* import math *), <<"i","m","p","o","r","t"," ","s","y","s">> (* import sys *), <<"i","m","p","o","r","t"," ","d","a","t","e","t","i","m","e">> (* import datetime *), <<"i","m","p","o","r","t"," ","o","s">> (* import os *), <<"i","m","p","o","r","t"," ","r","a","n","d","o","m">> (* import random *)>>

\* header_lines, with "import random" appended when random_used
header_lines(used) ==
  <<<<"i","m","p","o","r","t"," ","m","a","t","h">> (* import math *), <<"i","m","p","o","r","t"," ","s","y","s">> (* import sys *), <<"i","m","p","o","r","t"," ","d","a","t","e","t","i","m","e">> (* import datetime *), <<"i","m","p","o","r","t"," ","o","s">> (* import os *)>>
    \o (IF used THEN <<<<"i","m","p","o","r","t"," ","r","a","n","d","o","m">> (* import random *)>> ELSE <<>>)

\* ------------------------------------------------------------------------
\* The inputs: source_code.splitlines() is a sequence of at most MaxLines lines,
\* each drawn from SampleLines
\* ------------------------------------------------------------------------

MaxLines == 3

SampleLines ==
  { <<>>,
    <<"#"," ","n","o","t","e">> (* # note *),
    <<"i","f"," ","x">> (* if x *),
    <<"i","f"," ","a","[","0","]"," ","=","="," ","1">> (* if a[0] == 1 *),
    <<"w","h","i","l","e"," ","n"," ",">"," ","0"," ","d","o">> (* while n > 0 do *),
    <<"f","o","r"," ","1"," ","t","o"," ","3"," ","d","o">> (* for 1 to 3 do *),
    <<"e","n","d">>,
    <<"E","N","D"," "," ","#"," ","d","o","n","e">> (* END  # done *),
    <<"e","n","d"," ","p","r","o","g","r","a","m">> (* end program *),
    <<" "," ","p","r","i","n","t"," ","1"," ","#"," ","o","n","e">> (*   print 1 # one *),
    <<"p","r","i","n","t"," ","r","a","n","d","o","m"," ","b","o","o","l","e","a","n">> (* print random boolean *),
    <<"p","r","i","n","t"," ","r","a","n","d","o","m">> (* print random *),
    <<"p","r","i","n","t","x">> (* printx *),
    <<"s","t","o","r","a","g","e"," ","n","u","m","b","e","r"," ","r"," ","="," ","r","a","n","d","o","m"," ","n","u","m","b","e","r"," ","1"," ","t","o"," ","6">> (* storage number r = random number 1 to 6 *),
    <<"x"," ","="," ","t","r","u","e">> (* x = true *),
    <<"x","s"," ","a","p","p","e","n","d"," ","v","a","l","u","e"," ","3">> (* xs append value 3 *),
    <<"m","a","x","o","f">> (* maxof *),
    <<"c","r","e","a","t","e","d","i","c","t","i","o","n","a","r","y"," ","k","e","y">> (* createdictionary key *),
    <<"l","a","u","n","c","h"," ","r","o","c","k","e","t">> (* launch rocket *) }

Sources == UNION { [1..k -> SampleLines] : k \in 0..MaxLines }

\* The inputs of the statement forms: source_code.splitlines() is a sequence of at
\* most MaxStatements lines, each drawn from StatementLines
MaxStatements == 2

StatementLines ==
  {
    <<>>,
    <<"e","n","d">>,
    <<"e","n","d"," ","p","r","o","g","r","a","m">> (* end program *),
    <<"w","h","i","l","e"," ","n"," ",">"," ","0"," ","d","o">> (* while n > 0 do *),
    <<"f","o","r"," ","1"," ","t","o"," ","3"," ","d","o">> (* for 1 to 3 do *),
    <<"f","o","r"," ","1"," ","t","o"," ","3">> (* for 1 to 3 *),
    <<"f","o","r"," ","i"," ","="," ","1"," ","t","o"," ","3"," ","d","o">> (* for i = 1 to 3 do *),
    <<"f","o","r"," ","1"," ","u","p","t","o"," ","3"," ","d","o">> (* for 1 upto 3 do *),
    <<"f","o","r"," ","1"," ","t","o"," ","3"," ","t","h","e","n">> (* for 1 to 3 then *),
    <<"f","o","r"," ","i"," ","="," ","1"," ","t","o"," ","x","s","[","0","]"," ","d","o">> (* for i = 1 to xs[0] do *),
    <<"s","t","o","r","a","g","e"," ","n","u","m","b","e","r"," ","x"," ","="," ","5">> (* storage number x = 5 *),
    <<"s","t","o","r","a","g","e"," ","i","n","t","e","g","e","r"," ","n"," ","="," ","1"," ","+"," ","2">> (* storage integer n = 1 + 2 *),
    <<"s","t","o","r","a","g","e"," ","f","l","o","a","t"," ","f"," ","="," ","r","a","n","d","o","m"," ","n","u","m","b","e","r"," ","1"," ","t","o"," ","6">> (* storage float f = random number 1 to 6 *),
    <<"s","t","o","r","a","g","e"," ","f","l","o","a","t"," ","g"," ","="," ","s","q","r","t"," ","2">> (* storage float g = sqrt 2 *),
    <<"s","t","o","r","a","g","e"," ","n","u","m","b","e","r"," ","k"," ","="," ","t","e","x","t"," ","5">> (* storage number k = text 5 *),
    <<"s","t","o","r","a","g","e"," ","t","e","x","t"," ","t"," ","="," ","h","e","l","l","o">> (* storage text t = hello *),
    <<"s","t","o","r","a","g","e"," ","b","o","o","l","e","a","n"," ","b"," ","="," ","t","r","u","e">> (* storage boolean b = true *),
    <<"s","t","o","r","a","g","e"," ","a","r","r","a","y"," ","x","s"," ","="," ","c","r","e","a","t","e","a","r","r","a","y"," ","1"," ","2">> (* storage array xs = createarray 1 2 *),
    <<"s","t","o","r","a","g","e"," ","n","u","m","b","e","r"," ","y"," ","="," ","a","[","0","]">> (* storage number y = a[0] *),
    <<"s","t","o","r","a","g","e"," ","n","u","m","b","e","r">> (* storage number *),
    <<"s","t","o","r","a","g","e"," ","n","u","m","b","e","r"," ","n"," ","="," ","l","e","n","g","t","h"," ","x","s">> (* storage number n = length xs *),
    <<"p","r","i","n","t"," ","s","t","o","r","a","g","e"," ","x">> (* print storage x *),
    <<"i","f"," ","x"," ","i","s"," ","t","r","u","e">> (* if x is true *),
    <<"i","f"," ","x"," ","i","s"," ","f","a","l","s","e">> (* if x is false *),
    <<"i","f"," ","x">> (* if x *),
    <<"i","f"," ",":">> (* if : *),
    <<"i","f"," "," ","i","s"," ","t","r","u","e">> (* if  is true *),
    <<"i","f"," "," ","i","s"," ","f","a","l","s","e">> (* if  is false *),
    <<"i","f"," ","i","s"," ","t","r","u","e">> (* if is true *),
    <<"p","r","i","n","t"," ","a","[","0","]"," ","=","="," ","1">> (* print a[0] == 1 *),
    <<"p","r","i","n","t"," ","x">> (* print x *),
    <<"p","r","i","n","t"," ","t","e","x","t"," ","h","e","l","l","o">> (* print text hello *),
    <<"p","r","i","n","t"," ","x"," ","="," ","1">> (* print x = 1 *),
    <<"x"," ","="," ","t","e","x","t"," ","h","e","l","l","o">> (* x = text hello *),
    <<"a","[","0","]"," ","="," ","t","e","x","t"," ","h","e","l","l","o">> (* a[0] = text hello *),
    <<"x"," ","="," ","5">> (* x = 5 *),
    <<"p","r","i","n","t"," ","l","e","n","g","t","h"," ","x","s">> (* print length xs *),
    <<"l","e","n","g","t","h"," ","x","s">> (* length xs *),
    <<"p","r","i","n","t"," ","l","e","n","g","t","h","o","f"," ","x","s">> (* print lengthof xs *),
    <<"l","e","n","g","t","h","o","f"," ","x","s">> (* lengthof xs *) }

StatementSources == UNION { [1..k -> StatementLines] : k \in 0..MaxStatements }

\* ------------------------------------------------------------------------
\* State
\* ------------------------------------------------------------------------

VARIABLES
  source,        \* the lines of source_code, fixed for both calls
  call,          \* 1 during the first call of compile_language on source, 2 during the second
  first,         \* the outcome of the first call, once it is over
  pc,            \* "loop" inside the for loop, "returned" or "raised" when the call is over
  line_number,   \* local line_number
  indent,        \* local indent
  output_lines,  \* local output_lines
  random_used,   \* local random_used
  result,        \* the returned text, when pc = "returned"
  error,         \* the DSLCompilerError that left the call, when pc = "raised"
  random_calls,  \* how many calls of compile_random_expression returned in this call
  emitted_from,  \* for each element of output_lines, the number of the line that appended it
  call_tokens,   \* the argument of a direct call of compile_builtin_expression
  call_result    \* what that call returned or raised, once it is over

\* the variables of a direct call of compile_builtin_expression
builtin_call == <<call_tokens, call_result>>

vars == <<source, call, first, pc, line_number, indent, output_lines, random_used,
          result, error, random_calls, emitted_from, call_tokens, call_result>>

\* no value: nothing returned, nothing raised
Nothing == [tag |-> "nothing"]

\* the state at the start of a call of compile_language on src, with no direct
\* call of compile_builtin_expression
Compiling(src) ==
  /\ source = src
  /\ call = 1
  /\ first = Nothing
  /\ pc = "loop"
  /\ line_number = 0
  /\ indent = 0
  /\ output_lines = <<>>
  /\ random_used = FALSE
  /\ result = Nothing
  /\ error = Nothing
  /\ random_calls = 0
  /\ emitted_from = <<>>
  /\ call_tokens = <<>>
  /\ call_result = Nothing

Init ==
  /\ source \in Sources
  /\ call_tokens = <<>>
  /\ call_result = Nothing
  /\ call = 1
  /\ first = Nothing
  /\ pc = "loop"
  /\ line_number = 0
  /\ indent = 0
  /\ output_lines = <<>>
  /\ random_used = FALSE
  /\ result = Nothing
  /\ error = Nothing
  /\ random_calls = 0
  /\ emitted_from = <<>>

\* locals that keep the output buffer of the previous call
call_locals_kept ==
  [output_lines |-> output_lines, indent |-> 0, random_used |-> FALSE, line_number |-> 0]

\* the locals at the start of a call
call_locals ==
  [output_lines |-> <<>>, indent |-> 0, random_used |-> FALSE, line_number |-> 0]

\* ------------------------------------------------------------------------
\* One iteration of the for loop
\* ------------------------------------------------------------------------

\* the line the next iteration reads
NextLine == source[line_number + 1]

\* what the loop body does with a line: "blank" for the continue of an empty
\* stripped line, else the statement form the try block selects
LineKind(line) ==
  IF stripped_line(line) = <<>> THEN "blank" ELSE Kind(stripped_line(line))

\* the outcome of the try block for a line read as line number n
StatementOutcome(line, n) ==
  LET s == stripped_line(line)
      k == LineKind(line)
  IN
  IF k = "index_assignment" THEN Stmt(IndexAssignment(s), FALSE)
  ELSE IF k = "assignment" THEN Stmt(PlainAssignment(s), FALSE)
  ELSE IF k = "end_program" THEN Stmt(Ok(<<"s","y","s",".","e","x","i","t","(",")">> (* sys.exit() *)), FALSE)
  ELSE IF k = "if" THEN Stmt(IfStatement(s, n, line), FALSE)
  ELSE IF k = "while" THEN Stmt(WhileStatement(s, n, line), FALSE)
  ELSE IF k = "for" THEN Stmt(ForStatement(s, n, line), FALSE)
  ELSE IF k = "print" THEN PrintStatement(s, n, line)
  ELSE IF k = "storage" THEN StorageStatement(s, n, line)
  ELSE IF k = "bare" THEN Stmt(BareStatement(s, n, line), FALSE)
  ELSE Stmt(ReturnsNone, FALSE)

\* LineKind and StatementOutcome of every input line, computed once
KindOf == [line \in SampleLines \cup StatementLines |-> LineKind(line)]
OutcomeOf ==
  [line \in SampleLines \cup StatementLines |->
     [n \in 1..(MaxLines + MaxStatements) |-> StatementOutcome(line, n)]]

\* the loop has a next line, and it is a statement of kind k
AtStatement(k) ==
  /\ pc = "loop"
  /\ line_number < Len(source)
  /\ KindOf[NextLine] = k

\* the outcome of the try block for the next line
Outcome == OutcomeOf[NextLine][line_number + 1]

\* an except clause that records the error and lets the loop go on
RaiseAndContinue(r) ==
  /\ line_number' = line_number + 1
  /\ pc' = "loop"
  /\ error' = IF r.tag = "DSLCompilerError"
              THEN [line_number |-> r.line_number, line_text |-> r.line_text, message |-> r.message]
              ELSE [line_number |-> line_number + 1, line_text |-> NextLine, message |-> r.message]
  /\ UNCHANGED <<builtin_call, source, call, first, indent, output_lines, random_used, result,
                 random_calls, emitted_from>>

\* the except clauses: a DSLCompilerError leaves the call as it is, any other
\* exception leaves it as DSLCompilerError(line_number, original_line, str(e))
Raise(r) ==
  /\ line_number' = line_number + 1
  /\ pc' = "raised"
  /\ error' = IF r.tag = "DSLCompilerError"
              THEN [line_number |-> r.line_number, line_text |-> r.line_text, message |-> r.message]
              ELSE [line_number |-> line_number + 1, line_text |-> NextLine, message |-> r.message]
  /\ UNCHANGED <<builtin_call, source, call, first, indent, output_lines, random_used, result,
                 random_calls, emitted_from>>

\* output_lines.append("    " * indent + text), then indent += delta, then continue
Emit(st, delta) ==
  /\ line_number' = line_number + 1
  /\ output_lines' = Append(output_lines, Spaces(indent) \o st.res.value)
  /\ emitted_from' = Append(emitted_from, line_number + 1)
  /\ indent' = indent + delta
  /\ random_used' = (random_used \/ st.random)
  /\ random_calls' = random_calls + (IF st.called THEN 1 ELSE 0)
  /\ UNCHANGED <<builtin_call, source, call, first, pc, result, error>>

\* a branch that appends its text and adds delta to indent, or raises
Finish(st, delta) == IF st.res.tag = "ok" THEN Emit(st, delta) ELSE Raise(st.res)

\* a blank or comment-only line: continue
ProcessBlank ==
  /\ AtStatement("blank")
  /\ line_number' = line_number + 1
  /\ UNCHANGED <<builtin_call, source, call, first, pc, indent, output_lines, random_used, result, error,
                 random_calls, emitted_from>>

ProcessIndexAssignment ==
  /\ AtStatement("index_assignment")
  /\ Finish(Outcome, 0)

ProcessAssignment ==
  /\ AtStatement("assignment")
  /\ Finish(Outcome, 0)

ProcessEndProgram ==
  /\ AtStatement("end_program")
  /\ Finish(Outcome, 0)

\* end without the check of indent < 0
ProcessEndUnchecked ==
  /\ AtStatement("end")
  /\ line_number' = line_number + 1
  /\ indent' = indent - 1
  /\ UNCHANGED <<builtin_call, source, call, first, pc, error, output_lines, random_used, result,
                 random_calls, emitted_from>>

\* end: indent -= 1, then the check of indent < 0
ProcessEnd ==
  /\ AtStatement("end")
  /\ line_number' = line_number + 1
  /\ indent' = indent - 1
  /\ IF indent - 1 < 0
     THEN /\ pc' = "raised"
          /\ error' = [line_number |-> line_number + 1, line_text |-> NextLine,
                       message |-> "Unmatched 'end' statement"]
     ELSE UNCHANGED <<pc, error>>
  /\ UNCHANGED <<builtin_call, source, call, first, output_lines, random_used, result, random_calls,
                 emitted_from>>

ProcessIf ==
  /\ AtStatement("if")
  /\ Finish(Outcome, 1)

ProcessWhile ==
  /\ AtStatement("while")
  /\ Finish(Outcome, 1)

ProcessFor ==
  /\ AtStatement("for")
  /\ Finish(Outcome, 1)

ProcessPrint ==
  /\ AtStatement("print")
  /\ Finish(Outcome, 0)

ProcessStorage ==
  /\ AtStatement("storage")
  /\ Finish(Outcome, 0)

ProcessBare ==
  /\ AtStatement("bare")
  /\ Finish(Outcome, 0)

\* after the loop, without the check of indent
EndOfInputUnchecked ==
  /\ pc = "loop"
  /\ line_number = Len(source)
  /\ pc' = "returned"
  /\ result' = [tag |-> "text",
                value |-> Join(header_lines(random_used) \o output_lines, <<"\n">>)]
  /\ UNCHANGED <<builtin_call, source, call, first, line_number, indent, output_lines, random_used,
                 error, random_calls, emitted_from>>

\* after the loop: the check of indent, then the header and the join
EndOfInput ==
  /\ pc = "loop"
  /\ line_number = Len(source)
  /\ IF indent # 0
     THEN /\ pc' = "raised"
          /\ error' = [line_number |-> line_number, line_text |-> <<>>,
                       message |-> "Unclosed block statements detected."]
          /\ UNCHANGED result
     ELSE /\ pc' = "returned"
          /\ result' = [tag |-> "text",
                        value |-> Join(header_lines(random_used) \o output_lines, <<"\n">>)]
          /\ UNCHANGED error
  /\ UNCHANGED <<builtin_call, source, call, first, line_number, indent, output_lines, random_used,
                 random_calls, emitted_from>>

\* the caller compiles the same source a second time
CompileAgain ==
  /\ pc \in {"returned", "raised"}
  /\ call = 1
  /\ call' = 2
  /\ first' = [pc |-> pc, result |-> result, error |-> error]
  /\ pc' = "loop"
  /\ line_number' = call_locals.line_number
  /\ indent' = call_locals.indent
  /\ output_lines' = call_locals.output_lines
  /\ random_used' = call_locals.random_used
  /\ result' = Nothing
  /\ error' = Nothing
  /\ random_calls' = 0
  /\ emitted_from' = <<>>
  /\ UNCHANGED <<builtin_call, source>>

Next ==
  \/ ProcessBlank
  \/ ProcessIndexAssignment
  \/ ProcessAssignment
  \/ ProcessEndProgram
  \/ ProcessEnd
  \/ ProcessIf
  \/ ProcessWhile
  \/ ProcessFor
  \/ ProcessPrint
  \/ ProcessStorage
  \/ ProcessBare
  \/ EndOfInput
  \/ CompileAgain

Spec == Init /\ [][Next]_vars

\* compile_language on the sources of the statement forms
InitStatements == \E src \in StatementSources : Compiling(src)

SpecStatements == InitStatements /\ [][Next]_vars

TypeOK ==
  /\ pc \in {"loop", "returned", "raised"}
  /\ call \in {1, 2}
  /\ line_number \in 0..Len(source)


\* ------------------------------------------------------------------------
\* A direct call of compile_builtin_expression(tokens)
\* ------------------------------------------------------------------------

MaxArgs == 3

MaxGroups == 2

\* the sequences of at most n elements of S
SeqsUpTo(S, n) == UNION { [1..k -> S] : k \in 0..n }

\* the argument tokens of the calls: a text with a trailing comma, a name, a number
ArgTokens == {<<"a",",">>, <<"b">>, <<"2">>}

\* a registered builtin name followed by at most MaxArgs argument tokens
NamedCalls ==
  { <<name>> \o args : name \in all_builtin_funcs, args \in SeqsUpTo(ArgTokens, MaxArgs) }

DictionaryKeys == {<<"a">>, <<"b">>}

DictionaryValues == {<<"1">>, <<"2">>}

\* the tokens key <k> value <v>
Group(k, v) == <<<<"k","e","y">>, k, <<"v","a","l","u","e">> (* value *), v>>

Groups == { Group(k, v) : k \in DictionaryKeys, v \in DictionaryValues }

\* the tokens of a sequence of groups, one group after the other
RECURSIVE GroupTokens(_)
GroupTokens(gs) == IF gs = <<>> THEN <<>> ELSE Head(gs) \o GroupTokens(Tail(gs))

\* the sequences of 1 to MaxGroups groups
GroupSeqs == UNION { [1..n -> Groups] : n \in 1..MaxGroups }

\* args without its p-th token
Without(args, p) == SubSeq(args, 1, p - 1) \o SubSeq(args, p + 1, Len(args))

\* args with t in the place of its p-th token
Replaced(args, p, t) == [args EXCEPT ![p] = t]

\* the positions in the tokens of n groups: of the key keywords, of the value
\* keywords, of the values
KeyKeywordAt(n) == { 4 * g - 3 : g \in 1..n }
ValueKeywordAt(n) == { 4 * g - 1 : g \in 1..n }
ValueAt(n) == { 4 * g : g \in 1..n }

\* the tokens of gs with a key or value keyword missing: left out, or another word in its place
KeywordMissing(gs) ==
  { Without(GroupTokens(gs), p) : p \in KeyKeywordAt(Len(gs)) \cup ValueKeywordAt(Len(gs)) }
    \cup { Replaced(GroupTokens(gs), p, <<"x">>) : p \in KeyKeywordAt(Len(gs)) \cup ValueKeywordAt(Len(gs)) }

\* the tokens of gs with a keyword out of order: value where key belongs, key where
\* value belongs, or the two keywords of a group exchanged
KeywordOutOfOrder(gs) ==
  { Replaced(GroupTokens(gs), p, <<"v","a","l","u","e">> (* value *)) : p \in KeyKeywordAt(Len(gs)) }
    \cup { Replaced(GroupTokens(gs), p, <<"k","e","y">>) : p \in ValueKeywordAt(Len(gs)) }
    \cup { Replaced(Replaced(GroupTokens(gs), 4 * g - 3, <<"v","a","l","u","e">> (* value *)), 4 * g - 1, <<"k","e","y">>) :
             g \in 1..Len(gs) }

\* the tokens of gs with the value segment of a group empty: the value left out, or
\* the next keyword right behind value
ValueMissing(gs) ==
  { Without(GroupTokens(gs), p) : p \in ValueAt(Len(gs)) }
    \cup { Replaced(GroupTokens(gs), p, kw) : p \in ValueAt(Len(gs)), kw \in {<<"k","e","y">>, <<"v","a","l","u","e">> (* value *)} }

\* createdictionary alone, followed by groups, and followed by groups with a defect
DictionaryCalls ==
  { <<<<"c","r","e","a","t","e","d","i","c","t","i","o","n","a","r","y">> (* createdictionary *)>> \o args :
      args \in {<<>>} \cup UNION { {GroupTokens(gs)} \cup KeywordMissing(gs)
                                     \cup KeywordOutOfOrder(gs) \cup ValueMissing(gs) :
                                   gs \in GroupSeqs } }

BuiltinInputs == NamedCalls \cup DictionaryCalls

InitBuiltin ==
  /\ call_tokens \in BuiltinInputs
  /\ call_result = Nothing
  /\ source = <<>>
  /\ call = 1
  /\ first = Nothing
  /\ pc = "direct"
  /\ line_number = 0
  /\ indent = 0
  /\ output_lines = <<>>
  /\ random_used = FALSE
  /\ result = Nothing
  /\ error = Nothing
  /\ random_calls = 0
  /\ emitted_from = <<>>

\* the call returns, returns None, or raises
CallBuiltin ==
  /\ pc = "direct"
  /\ call_result = Nothing
  /\ call_result' = compile_builtin_expression(call_tokens)
  /\ UNCHANGED <<call_tokens, source, call, first, pc, line_number, indent, output_lines,
                 random_used, result, error, random_calls, emitted_from>>

NextBuiltin == CallBuiltin

SpecBuiltin == InitBuiltin /\ [][NextBuiltin]_vars

\* ---------------------------------------------------------------------------
\* Properties of compile_language
\* ---------------------------------------------------------------------------

\* the loop reads its next line in this step
ReadsLine ==
  /\ pc = "loop"
  /\ line_number < Len(source)
  /\ line_number' = line_number + 1

\* the input lines with nothing but whitespace before the first "#", or before their end
BlankLines ==
  { line \in SampleLines :
      \A i \in 1..Len(line) : IsSpace(line[i]) \/ (\E j \in 1..i : line[j] = "#") }

IsBlankLine(line) == line \in BlankLines

\* the input lines whose normalised text is end, in any letter case
EndLines == { line \in SampleLines : Lower(stripped_line(line)) = <<"e","n","d">> }

IsEndLine(line) == line \in EndLines

\* the input lines whose normalised text begins with if, while or for and a space
BlockLines ==
  { line \in SampleLines :
      \/ StartsWith(stripped_line(line), <<"i","f"," ">>)
      \/ StartsWith(stripped_line(line), <<"w","h","i","l","e"," ">> (* while  *))
      \/ StartsWith(stripped_line(line), <<"f","o","r"," ">> (* for  *)) }

BeginsBlock(line) == line \in BlockLines

\* the number of leading spaces of a text
LeadingSpaces(s) == Cardinality({ i \in 1..Len(s) : \A j \in 1..i : s[j] = " " })

\* the numbers, in ascending order, of the lines of src that satisfy Test
LineNumbers(src, Test(_)) ==
  SelectSeq([i \in 1..Len(src) |-> i], LAMBDA i : Test(src[i]))

\* C1: whenever the loop reads a line whose text begins with if, while or for
\* and goes on, the depth after the line is the depth before plus one and the
\* line has emitted exactly one output line, whatever its condition contains.
C1_OpenerDeepensByOne ==
  [][(ReadsLine /\ BeginsBlock(NextLine) /\ pc' = "loop")
       => /\ indent' = indent + 1
          /\ Len(output_lines') = Len(output_lines) + 1]_vars

\* C2: an end line emits nothing and lowers the depth by one; read at depth 0
\* it raises the unmatched-end error with the number and the raw text of the
\* line; a negative depth is only ever seen in a call that has raised, and
\* nothing is processed at a negative depth.
C2_EndClosesOrFails ==
  /\ [](indent < 0 => pc = "raised")
  /\ [][(ReadsLine /\ IsEndLine(NextLine))
          => /\ output_lines' = output_lines
             /\ indent' = indent - 1
             /\ result' = result
             /\ IF indent = 0
                THEN /\ pc' = "raised"
                     /\ error' = [line_number |-> line_number + 1, line_text |-> NextLine,
                                  message |-> "Unmatched 'end' statement"]
                ELSE pc' = "loop" /\ error' = error]_vars
  /\ [][(indent < 0 /\ call' = call)
          => UNCHANGED <<line_number, indent, output_lines, random_used, result, error>>]_vars

\* an end at depth 0, after a block was opened and closed, has raised
C2_Witness ==
  /\ pc = "raised"
  /\ indent = -1
  /\ line_number = 3
  /\ Len(output_lines) = 1
  /\ error.message = "Unmatched 'end' statement"
  /\ error.line_number = 3
  /\ error.line_text = source[3]

\* the line is read by the if, the while or the for branch
OpensBlock(line) == KindOf[line] \in {"if", "while", "for"}

DepthBefore(i) ==
  Cardinality({ j \in 1..(i - 1) : OpensBlock(source[j]) })
    - Cardinality({ j \in 1..(i - 1) : IsEndLine(source[j]) })

\* the text that line i compiles to, before it is indented
StatementText(i) == OutcomeOf[source[i]][i].res.value

\* C4: every emitted line is its statement's text behind exactly 4 * d spaces,
\* d being the depth before the line that produced it; a block-opening line is
\* emitted at the depth before its increment, and the statement that follows
\* it inside the block is emitted one level deeper.
C4_IndentationIsFourPerLevel ==
  /\ Len(emitted_from) = Len(output_lines)
  /\ \A k \in 1..Len(output_lines) :
       /\ output_lines[k] = [j \in 1..(4 * DepthBefore(emitted_from[k])) |-> " "]
                              \o StatementText(emitted_from[k])
       /\ LeadingSpaces(output_lines[k])
            = 4 * DepthBefore(emitted_from[k]) + LeadingSpaces(StatementText(emitted_from[k]))
  /\ \A k \in 1..(Len(output_lines) - 1) :
       (/\ OpensBlock(source[emitted_from[k]])
        /\ \A i \in (emitted_from[k] + 1)..(emitted_from[k + 1] - 1) : ~IsEndLine(source[i]))
         => LeadingSpaces(output_lines[k + 1]) - LeadingSpaces(StatementText(emitted_from[k + 1]))
              = LeadingSpaces(output_lines[k]) - LeadingSpaces(StatementText(emitted_from[k])) + 4

\* a statement two blocks deep was emitted behind eight spaces
C4_Witness ==
  /\ Len(output_lines) = 3
  /\ OpensBlock(source[1])
  /\ OpensBlock(source[2])
  /\ LeadingSpaces(output_lines[1]) = 0
  /\ LeadingSpaces(output_lines[2]) = 4
  /\ LeadingSpaces(output_lines[3]) = 8

\* the lines of the returned text
ResultLines == SplitChar(result.value, "\n")

\* how many elements of a sequence of lines equal a given line
Occurrences(lines, line) == Cardinality({k \in 1..Len(lines) : lines[k] = line})

\* lines start with the four imports, each occurring once, and import random is
\* the fifth line, once, exactly when compile_random_expression has returned
HeaderOf(lines) ==
  /\ Len(lines) >= 4
  /\ SubSeq(lines, 1, 4) = <<<<"i","m","p","o","r","t"," ","m","a","t","h">> (* import math *), <<"i","m","p","o","r","t"," ","s","y","s">> (* import sys *), <<"i","m","p","o","r","t"," ","d","a","t","e","t","i","m","e">> (* import datetime *), <<"i","m","p","o","r","t"," ","o","s">> (* import os *)>>
  /\ Len(lines) = 4 + (IF random_calls > 0 THEN 1 ELSE 0) + Len(output_lines)
  /\ (random_calls > 0) <=> (Len(lines) >= 5 /\ lines[5] = <<"i","m","p","o","r","t"," ","r","a","n","d","o","m">> (* import random *))
  /\ Occurrences(lines, <<"i","m","p","o","r","t"," ","r","a","n","d","o","m">> (* import random *)) = (IF random_calls > 0 THEN 1 ELSE 0)
  /\ \A h \in {<<"i","m","p","o","r","t"," ","m","a","t","h">> (* import math *), <<"i","m","p","o","r","t"," ","s","y","s">> (* import sys *), <<"i","m","p","o","r","t"," ","d","a","t","e","t","i","m","e">> (* import datetime *), <<"i","m","p","o","r","t"," ","o","s">> (* import os *)} :
       Occurrences(lines, h) = 1

\* C5: a returned program starts with import math, import sys, import datetime
\* and import os, each exactly once and in that order, and import random is its
\* next line exactly when a call of compile_random_expression returned during
\* the run.
C5_HeaderAndRandomImport ==
  /\ random_used <=> (random_calls > 0)
  /\ pc = "returned" => HeaderOf(ResultLines)

\* a returned program whose fifth line is import random, after one random expression
C5_Witness ==
  /\ pc = "returned"
  /\ random_calls = 1
  /\ Len(output_lines) = 2
  /\ ResultLines[5] = <<"i","m","p","o","r","t"," ","r","a","n","d","o","m">> (* import random *)

\* a returned program without import random, though a statement names random
C5_WitnessNoImport ==
  /\ pc = "returned"
  /\ random_calls = 0
  /\ Len(ResultLines) = 5
  /\ ResultLines[5] = <<"p","r","i","n","t","(","r","a","n","d","o","m",")">> (* print(random) *)

C6_WitnessRaised ==
  /\ call = 2
  /\ pc = "raised"
  /\ first.pc = "raised"
  /\ first.error.line_number = 2
  /\ error.line_number = 2
  /\ Len(output_lines) = 1

\* the first word of the normalised text of a line
Keyword(line) == Split(stripped_line(line))[1]

\* the line is not blank, is no assignment, no end, and its first word is none of
\* the statement keywords and none of the builtin function names
UnknownKeywordLines ==
  { line \in SampleLines :
      /\ ~IsBlankLine(line)
      /\ ~HasChar(stripped_line(line), "=")
      /\ Lower(Keyword(line)) # <<"e","n","d">>
      /\ Keyword(line) \notin {<<"i","f">>, <<"w","h","i","l","e">> (* while *), <<"f","o","r">>, <<"p","r","i","n","t">> (* print *), <<"s","t","o","r","a","g","e">> (* storage *), <<"r","a","n","d","o","m">> (* random *)}
      /\ Keyword(line) \notin all_builtin_funcs }

HasUnknownKeyword(line) == line \in UnknownKeywordLines

\* C7: a line whose leading keyword is none of the recognised forms raises the
\* unknown-command error with the number and the raw text of the line, and
\* emits nothing.
C7_UnknownKeywordFails ==
  [][(ReadsLine /\ HasUnknownKeyword(NextLine))
       => /\ pc' = "raised"
          /\ error'.message = "Unknown command"
          /\ error'.line_number = line_number + 1
          /\ error'.line_text = NextLine
          /\ output_lines' = output_lines]_vars

\* C8: every error raised while a line is processed carries the number of that
\* line, counted from 1, and its raw text.
C8_ErrorsCarryTheLine ==
  (pc = "raised" /\ error.message # "Unclosed block statements detected.")
    => /\ line_number >= 1
       /\ error.line_number = line_number
       /\ error.line_text = source[line_number]

\* C9: the first error ends the call: once an error is recorded the call has
\* raised and has returned nothing, and no later line is read, no depth, flag
\* or output changes.
C9_FirstErrorEndsTheCall ==
  /\ [](error # Nothing => (pc = "raised" /\ result = Nothing))
  /\ [][(error # Nothing /\ call' = call)
          => UNCHANGED <<pc, line_number, indent, output_lines, random_used, result, error>>]_vars

\* a call has raised on its second line with a line emitted and a line still unread
C9_Witness ==
  /\ pc = "raised"
  /\ error # Nothing
  /\ result = Nothing
  /\ line_number = 2
  /\ Len(source) = 3
  /\ Len(output_lines) = 1
  /\ error.line_number = 2

\* the line is a statement: neither blank nor end
IsStatementLine(line) == ~IsBlankLine(line) /\ ~IsEndLine(line)

\* the last elements of lines are those of tail, behind the header
EndsWithLines(lines, tail) ==
  /\ Len(lines) = Len(header_lines(random_used)) + Len(tail)
  /\ SubSeq(lines, Len(lines) - Len(tail) + 1, Len(lines)) = tail

\* C10: a blank or comment-only line changes neither depth, flag nor output,
\* and in a call that returns the emitted lines are, in order, one for each
\* line that is neither blank nor end, and they are the lines of the returned
\* text after the header.
C10_OneLinePerStatement ==
  /\ [][(ReadsLine /\ IsBlankLine(NextLine))
          => UNCHANGED <<pc, indent, random_used, output_lines, result, error>>]_vars
  /\ [](pc = "returned"
          => /\ emitted_from = LineNumbers(source, IsStatementLine)
             /\ Len(output_lines) = Len(emitted_from)
             /\ EndsWithLines(ResultLines, output_lines))

\* a returned program of one line, from a statement, a comment line and an end
C10_Witness ==
  /\ pc = "returned"
  /\ Len(source) = 3
  /\ IsBlankLine(source[2])
  /\ source[2] # <<>>
  /\ IsEndLine(source[3])
  /\ emitted_from = <<1>>
  /\ Len(ResultLines) = 5

\* ---------------------------------------------------------------------------
\* Properties of compile_builtin_expression
\* ---------------------------------------------------------------------------

\* the direct call is over
Called == call_result # Nothing

\* the call raised
Failed(r) == r.tag \in {"Exception", "DSLCompilerError"}

\* the entry '<k>': "<v>" of the group key <k> value <v>
EntryText(g) == <<"'">> \o g[2] \o <<"'",":"," ","\"">> (* ': '' *) \o g[4] \o <<"\"">>

\* the mapping construction with one entry for each group of gs, in the order of gs
MappingText(gs) ==
  <<"{">> \o Join([n \in 1..Len(gs) |-> EntryText(gs[n])], <<","," ">>) \o <<"}">>

C11_WitnessFailed ==
  /\ call_tokens = <<<<"c","r","e","a","t","e","d","i","c","t","i","o","n","a","r","y">> (* createdictionary *), <<"k","e","y">>, <<"a">>, <<"v","a","l","u","e">> (* value *), <<"k","e","y">>>>
  /\ Failed(call_result)

\* ---------------------------------------------------------------------------
\* Properties of the statement forms of compile_language
\* ---------------------------------------------------------------------------

\* n levels of indentation
Indentation(n) == [j \in 1..(4 * n) |-> " "]

\* the words of the normalised text of a line
Words(line) == Split(stripped_line(line))

\* the lines whose normalised text begins with for and a space
ForLines == { line \in StatementLines : StartsWith(stripped_line(line), <<"f","o","r"," ">> (* for  *)) }

\* the for lines whose words are exactly for <start> to <end> do
CountedForLines ==
  { line \in ForLines :
      /\ Len(Words(line)) = 5
      /\ Words(line)[1] = <<"f","o","r">>
      /\ Words(line)[3] = <<"t","o">>
      /\ Words(line)[5] = <<"d","o">> }

\* for i in range(<start>, <end> + 1):
CountedLoop(line) ==
  <<"f","o","r"," ","i"," ","i","n"," ","r","a","n","g","e","(">> (* for i in range( *) \o Words(line)[2] \o <<","," ">> \o Words(line)[4] \o <<" ","+"," ","1",")",":">> (*  + 1): *)

\* C12: a line that begins with for compiles exactly when its words are
\* for <start> to <end> do; it then emits for i in range(<start>, <end> + 1):
\* and opens a block, and any other shape raises the malformed for loop error
\* and emits nothing.
C12_CountedLoopOrMalformed ==
  [][(ReadsLine /\ NextLine \in ForLines)
       => IF NextLine \in CountedForLines
          THEN /\ pc' = "loop"
               /\ output_lines' = Append(output_lines, Indentation(indent) \o CountedLoop(NextLine))
               /\ indent' = indent + 1
          ELSE /\ pc' = "raised"
               /\ error'.message = "Invalid for loop syntax. Expected: for <start> to <end> do"
               /\ output_lines' = output_lines]_vars

\* the lines whose normalised text is storage <type> <name> ...
DeclarationLines ==
  { line \in StatementLines : Len(Words(line)) >= 3 /\ Words(line)[1] = <<"s","t","o","r","a","g","e">> (* storage *) }

\* the declared type, in lower case, and the declared name
DeclaredType(line) == Lower(Words(line)[2])
DeclaredName(line) == Words(line)[3]

\* text is <name> = <wrapper>(...) for the declared name of line
Coerced(text, line, wrapper) ==
  /\ StartsWith(text, DeclaredName(line) \o <<" ","="," ">> \o wrapper \o <<"(">>)
  /\ EndsWith(text, <<")">>)

\* the numeric coercion of text agrees with the declared type of line
CoercionAgrees(text, line) ==
  /\ StartsWith(text, DeclaredName(line) \o <<" ","="," ">>)
  /\ DeclaredType(line) \in {<<"n","u","m","b","e","r">> (* number *), <<"i","n","t","e","g","e","r">> (* integer *)} <=> Coerced(text, line, <<"i","n","t">>)
  /\ DeclaredType(line) = <<"f","l","o","a","t">> (* float *) <=> Coerced(text, line, <<"f","l","o","a","t">> (* float *))

\* declarations of each value path, with the line each one emits: arithmetic
\* expression, random keyword, text keyword, builtin call, plain literal
DeclarationsByPath ==
  { <<<<"s","t","o","r","a","g","e"," ","i","n","t","e","g","e","r"," ","n"," ","="," ","1"," ","+"," ","2">> (* storage integer n = 1 + 2 *), <<"n"," ","="," ","i","n","t","(","1"," ","+"," ","2",")">> (* n = int(1 + 2) *)>>,
    <<<<"s","t","o","r","a","g","e"," ","f","l","o","a","t"," ","f"," ","="," ","r","a","n","d","o","m"," ","n","u","m","b","e","r"," ","1"," ","t","o"," ","6">> (* storage float f = random number 1 to 6 *), <<"f"," ","="," ","f","l","o","a","t","(","r","a","n","d","o","m",".","r","a","n","d","i","n","t","(","1",","," ","6",")",")">> (* f = float(random.randint(1, 6)) *)>>,
    <<<<"s","t","o","r","a","g","e"," ","n","u","m","b","e","r"," ","k"," ","="," ","t","e","x","t"," ","5">> (* storage number k = text 5 *), <<"k"," ","="," ","i","n","t","(","\"","5","\"",")">> (* k = int(''5'') *)>>,
    <<<<"s","t","o","r","a","g","e"," ","f","l","o","a","t"," ","g"," ","="," ","s","q","r","t"," ","2">> (* storage float g = sqrt 2 *), <<"g"," ","="," ","f","l","o","a","t","(","m","a","t","h",".","s","q","r","t","(","2",")",")">> (* g = float(math.sqrt(2)) *)>>,
    <<<<"s","t","o","r","a","g","e"," ","a","r","r","a","y"," ","x","s"," ","="," ","c","r","e","a","t","e","a","r","r","a","y"," ","1"," ","2">> (* storage array xs = createarray 1 2 *), <<"x","s"," ","="," ","[","1",","," ","2","]">> (* xs = [1, 2] *)>>,
    <<<<"s","t","o","r","a","g","e"," ","n","u","m","b","e","r"," ","x"," ","="," ","5">> (* storage number x = 5 *), <<"x"," ","="," ","i","n","t","(","5",")">> (* x = int(5) *)>>,
    <<<<"s","t","o","r","a","g","e"," ","t","e","x","t"," ","t"," ","="," ","h","e","l","l","o">> (* storage text t = hello *), <<"t"," ","="," ","\"","h","e","l","l","o","\"">> (* t = ''hello'' *)>>,
    <<<<"s","t","o","r","a","g","e"," ","b","o","o","l","e","a","n"," ","b"," ","="," ","t","r","u","e">> (* storage boolean b = true *), <<"b"," ","="," ","T","r","u","e">> (* b = True *)>> }

\* C13: every storage declaration that compiles emits <name> = int(<expr>)
\* for the types number and integer, <name> = float(<expr>) for float, and no
\* numeric coercion for the other types, on each of the value paths; and
\* storage number x = 5 followed by print storage x emits x = int(5) and
\* print(x).
C13_NumericCoercion ==
  /\ [][(ReadsLine /\ NextLine \in DeclarationLines /\ pc' = "loop")
          => /\ Len(output_lines') = Len(output_lines) + 1
             /\ indent' = indent
             /\ \E text \in {DropFirst(output_lines'[Len(output_lines')], 4 * indent)} :
                  /\ output_lines' = Append(output_lines, Indentation(indent) \o text)
                  /\ CoercionAgrees(text, NextLine)
                  /\ \A d \in DeclarationsByPath : d[1] = NextLine => d[2] = text]_vars
  /\ []((pc = "returned" /\ source = <<<<"s","t","o","r","a","g","e"," ","n","u","m","b","e","r"," ","x"," ","="," ","5">> (* storage number x = 5 *), <<"p","r","i","n","t"," ","s","t","o","r","a","g","e"," ","x">> (* print storage x *)>>)
          => output_lines = <<<<"x"," ","="," ","i","n","t","(","5",")">> (* x = int(5) *), <<"p","r","i","n","t","(","x",")">> (* print(x) *)>>)

\* storage number x = 5 and print storage x have returned a program of those two lines
C13_Witness ==
  /\ pc = "returned"
  /\ source = <<<<"s","t","o","r","a","g","e"," ","n","u","m","b","e","r"," ","x"," ","="," ","5">> (* storage number x = 5 *), <<"p","r","i","n","t"," ","s","t","o","r","a","g","e"," ","x">> (* print storage x *)>>
  /\ output_lines = <<<<"x"," ","="," ","i","n","t","(","5",")">> (* x = int(5) *), <<"p","r","i","n","t","(","x",")">> (* print(x) *)>>
  /\ Len(ResultLines) = 6


\* the lines whose normalised text begins with if and a space
IfLines == { line \in StatementLines : StartsWith(stripped_line(line), <<"i","f"," ">>) }

\* the text behind if, without surrounding blanks and without a closing colon
ConditionText(line) ==
  IF EndsWith(Strip(DropFirst(stripped_line(line), 3)), <<":">>)
  THEN Strip(DropLast(Strip(DropFirst(stripped_line(line), 3)), 1))
  ELSE Strip(DropFirst(stripped_line(line), 3))

\* the step raises one of the empty condition errors and emits nothing
EmptyConditionError ==
  /\ pc' = "raised"
  /\ error'.message \in { "Missing condition in if statement.",
                          "Empty condition before 'is true'.",
                          "Empty condition before 'is false'." }
  /\ error'.line_number = line_number + 1
  /\ output_lines' = output_lines
  /\ indent' = indent

\* the step emits text at the current indentation, opens a block and goes on
OpensWith(text) ==
  /\ pc' = "loop"
  /\ output_lines' = Append(output_lines, Indentation(indent) \o text)
  /\ indent' = indent + 1

\* c is the suffix alone, or ends with the suffix behind a space
HasSuffix(c, suffix) == c = suffix \/ EndsWith(c, <<" ">> \o suffix)

\* what the if line with condition text c must do
IfLineDoes(c) ==
  IF HasSuffix(c, <<"i","s"," ","t","r","u","e">> (* is true *))
  THEN IF Strip(DropLast(c, 7)) = <<>>
       THEN EmptyConditionError
       ELSE OpensWith(<<"i","f"," ">> \o Strip(DropLast(c, 7)) \o <<":">>)
  ELSE IF HasSuffix(c, <<"i","s"," ","f","a","l","s","e">> (* is false *))
  THEN IF Strip(DropLast(c, 8)) = <<>>
       THEN EmptyConditionError
       ELSE OpensWith(<<"i","f"," ","n","o","t"," ","(">> (* if not ( *) \o Strip(DropLast(c, 8)) \o <<")",":">>)
  ELSE IF c = <<>>
  THEN EmptyConditionError
  ELSE OpensWith(<<"i","f"," ">> \o c \o <<":">>)

\* C14: an if line with a trailing is true emits if C:, with a trailing
\* is false emits if not (C):, and with an empty condition, nothing behind if
\* or nothing before the suffix, raises the empty condition error and emits
\* nothing.
C14_IfSuffixes ==
  [][(ReadsLine /\ NextLine \in IfLines) => IfLineDoes(ConditionText(NextLine))]_vars

\* the lines whose normalised text is print, a space and a remainder
PrintLines == { line \in StatementLines : StartsWith(stripped_line(line), <<"p","r","i","n","t"," ">> (* print  *)) }

\* C15: every line that is print followed by a non-empty remainder emits
\* exactly one line print(...), also when the remainder holds "[", "]" and "=".
C15_PrintBeforeAssignment ==
  [][(ReadsLine /\ NextLine \in PrintLines)
       => /\ pc' = "loop"
          /\ indent' = indent
          /\ Len(output_lines') = Len(output_lines) + 1
          /\ SubSeq(output_lines', 1, Len(output_lines)) = output_lines
          /\ StartsWith(output_lines'[Len(output_lines')], Indentation(indent) \o <<"p","r","i","n","t","(">> (* print( *))
          /\ EndsWith(output_lines'[Len(output_lines')], <<")">>)]_vars

\* the direct call is of name with exactly these argument tokens
CallOf(name, args) == call_tokens = <<name>> \o args

\* the argument tokens joined by spaces and split at the commas, blanks stripped
CommaParts(args) == StripEach(SplitChar(Join(args, <<" ">>), ","))

\* the argument tokens are exactly two non-empty parts around one comma
TwoParts(args) ==
  /\ Len(CommaParts(args)) = 2
  /\ CommaParts(args)[1] # <<>>
  /\ CommaParts(args)[2] # <<>>

\* C16: mod <a>, <b> returns (<a>) % (<b>) and log <x>, <base> returns
\* math.log(<x>, <base>) when the remainder has exactly two non-empty parts
\* around one comma; any other number of parts raises.
C16_ModAndLogTakeTwoParts ==
  Called =>
    \A args \in SeqsUpTo(ArgTokens, MaxArgs) :
      /\ (CallOf(<<"m","o","d">>, args) /\ TwoParts(args))
           => call_result = Ok(<<"(">> \o CommaParts(args)[1] \o <<")"," ","%"," ","(">> (* ) % ( *)
                                 \o CommaParts(args)[2] \o <<")">>)
      /\ (CallOf(<<"l","o","g">>, args) /\ TwoParts(args))
           => call_result = Ok(<<"m","a","t","h",".","l","o","g","(">> (* math.log( *) \o CommaParts(args)[1] \o <<","," ">>
                                 \o CommaParts(args)[2] \o <<")">>)
      /\ ((CallOf(<<"m","o","d">>, args) \/ CallOf(<<"l","o","g">>, args)) /\ Len(CommaParts(args)) # 2)
           => Failed(call_result)

\* the text before the first "=" of a line, and the words behind it
LeftSide(line) == Strip(SplitOnce(stripped_line(line), "=")[1])
RightWords(line) == Split(SplitOnce(stripped_line(line), "=")[2])

\* the assignments <name> = text <literal...> and <name>[<idx>] = text <literal...>
TextAssignmentLines ==
  { line \in StatementLines :
      /\ HasChar(stripped_line(line), "=")
      /\ Words(line)[1] \notin {<<"s","t","o","r","a","g","e">> (* storage *), <<"i","f">>, <<"w","h","i","l","e">> (* while *), <<"f","o","r">>, <<"p","r","i","n","t">> (* print *)}
      /\ Len(RightWords(line)) >= 2
      /\ RightWords(line)[1] = <<"t","e","x","t">> (* text *) }

\* <left side> = "<literal...>"
QuotedAssignment(line) ==
  LeftSide(line) \o <<" ","="," ","\"">> (*  = '' *) \o Join(Tail(RightWords(line)), <<" ">>) \o <<"\"">>

\* C17: an assignment whose right-hand side begins with text is emitted with
\* the keyword removed and the literal quoted, the plain assignment
\* <name> = text <literal...> as well as the index assignment
\* <name>[<idx>] = text <literal...>.
C17_TextLiteralIsQuoted ==
  [][(ReadsLine /\ NextLine \in TextAssignmentLines)
       => /\ pc' = "loop"
          /\ indent' = indent
          /\ output_lines' = Append(output_lines, Indentation(indent) \o QuotedAssignment(NextLine))]_vars

\* C18: a call whose first token is a registered builtin name returns text or
\* raises; it never finishes without a result.
C18_BuiltinReturnsOrRaises ==
  (Called /\ call_tokens[1] \in all_builtin_funcs)
    => (call_result.tag = "ok" \/ Failed(call_result))

\* the non-empty sequences of at most MaxArgs argument tokens
SomeArgs == SeqsUpTo(ArgTokens, MaxArgs) \ {<<>>}

\* C19: maxof, minof, concat, createtext, createarray and createdictionary
\* given only the operation name raise and return no expression; maxof, minof
\* and createarray return an expression for any number >= 1 of arguments,
\* concat for any number >= 2.
C19_VariadicNeedsArguments ==
  Called =>
    /\ \A name \in {<<"m","a","x","o","f">> (* maxof *), <<"m","i","n","o","f">> (* minof *), <<"c","o","n","c","a","t">> (* concat *), <<"c","r","e","a","t","e","t","e","x","t">> (* createtext *), <<"c","r","e","a","t","e","a","r","r","a","y">> (* createarray *),
                    <<"c","r","e","a","t","e","d","i","c","t","i","o","n","a","r","y">> (* createdictionary *)} :
         CallOf(name, <<>>) => Failed(call_result)
    /\ \A name \in {<<"m","a","x","o","f">> (* maxof *), <<"m","i","n","o","f">> (* minof *), <<"c","r","e","a","t","e","a","r","r","a","y">> (* createarray *)} :
         \A args \in SomeArgs : CallOf(name, args) => call_result.tag = "ok"
    /\ \A args \in SomeArgs :
         (CallOf(<<"c","o","n","c","a","t">> (* concat *), args) /\ Len(args) >= 2) => call_result.tag = "ok"
====
